---- MODULE Spec2Model ----
(***************************************************************************)
(* Model of the screens of GoalsApp: the streak screen                      *)
(* (src/app/(tabs)/streaks.js), the daily tasks screen                     *)
(* (src/app/(tabs)/tasks.js), the goal list and the goal detail screen     *)
(* (src/unnamed/part_001).                                                 *)
(*                                                                         *)
(* Representation                                                          *)
(*   - a date string 'YYYY-MM-DD' is the tuple <<y, m, d>>;                *)
(*   - a JavaScript Date is [day |-> days since 1970-01-01 (UTC),          *)
(*     ms |-> milliseconds into that UTC day], or InvalidDate;             *)
(*   - a stored JSON value is [type, val, nan]: type is what typeof        *)
(*     yields, val is ToNumber(value) in units of half an hour, nan tells  *)
(*     that ToNumber(value) is NaN;                                        *)
(*   - hours are counted in units of half an hour (0.5 h = 1), quotients   *)
(*     are exact fractions [num, den] in lowest terms, in hours.           *)
(***************************************************************************)
EXTENDS Integers, Sequences, FiniteSets, TLC

VARIABLES
    now,               \* the instant new Date() yields (held fixed in a behaviour)
    storage,           \* AsyncStorage item under STREAK_DATA_KEY
    pending,           \* AsyncStorage requests in flight, oldest first
    heatmapData,       \* useState({})  streaks.js:48
    currentStreak,     \* useState(0)   streaks.js:46
    longestStreak,     \* useState(0)   streaks.js:47
    totalHours,        \* useState(0)   streaks.js:49 (half hours)
    averageHours,      \* useState(0)   streaks.js:50 (fraction, hours)
    consistencyScore,  \* useState(0)   streaks.js:59 (fraction)
    isLoading,         \* useState(true) streaks.js:51
    alert,             \* title of the Alert.alert the last step raised, "" when none
    loaded,            \* a call of processDataAndUpdateState on stored data has completed
    platform,          \* Platform.OS
    dialog,            \* the open hours prompt (iOS) or hours modal (Android)
    call,              \* history: the step taken last, with the date and text it was given
    failed,            \* history: the kinds of storage failure met so far
    tasks,             \* tasks.js: useState([])  tasks.js:324
    taskStorage,       \* tasks.js: AsyncStorage item under TASKS_KEY
    taskPending,       \* tasks.js: AsyncStorage requests in flight, oldest first
    taskLoad,          \* tasks.js: "pending", "ok" or "failed": how loadTasks ended
    taskDialog,        \* tasks.js: the open edit modal or delete confirmation
    taskClock,         \* tasks.js: the value Date.now() yields next
    taskCall,          \* history: the tasks.js handler that ran last, with its arguments
    taskIdeal,         \* history: the list after every operation whose write succeeded,
                       \* known when every write was started after the load
    calcGoal,          \* part_001: the goal the progress functions are applied to
    calcList,          \* part_001: what calculateGoalProgress(calcGoal) returned
    calcDetail,        \* part_001: what calculateProgress() returned with goal = calcGoal
    weeksArgs,         \* part_001: the arguments <<startDateStr, endDateStr>>
    weeksOut,          \* part_001: what getWeeksBetweenDates(weeksArgs) returned
    goalsStorage,      \* part_001: AsyncStorage item under '@goals'
    goals,             \* part_001: GoalsScreen useState([])  part_001:503
    goalsPending,      \* part_001: GoalsScreen requests in flight, oldest first
    goalsDialog,       \* part_001: the id the open 'Delete Goal' alert is about
    goalsCall,         \* history: the GoalsScreen step taken last
    goalId,            \* part_001: useLocalSearchParams().goalId  part_001:46
    canGoBack,         \* part_001: what router.canGoBack() yields
    detailFocused,     \* part_001: the goal detail screen has the focus
    goal,              \* part_001: GoalDetailScreen useState(null)  part_001:49
    goalGen,           \* part_001: the object goal is a copy of (see the detail screen)
    detailDialog,      \* part_001: the open 'Delete Task' alert
    loading,           \* part_001: GoalDetailScreen useState(true)  part_001:50
    detailPending,     \* part_001: GoalDetailScreen requests in flight, oldest first
    detailCall         \* history: the GoalDetailScreen step taken last

streakVars == <<now, storage, pending, heatmapData, currentStreak, longestStreak,
                totalHours, averageHours, consistencyScore, isLoading, alert, loaded,
                platform, dialog, call, failed>>

taskVars == <<tasks, taskStorage, taskPending, taskLoad, taskDialog, taskClock,
              taskCall, taskIdeal>>

calcVars == <<calcGoal, calcList, calcDetail, weeksArgs, weeksOut>>

listVars == <<goals, goalsPending, goalsDialog, goalsCall>>

detailVars == <<goalId, canGoBack, detailFocused, goal, goalGen, loading, detailPending,
                detailDialog, detailCall>>

goalVars == <<goalsStorage, listVars, detailVars>>

vars == <<streakVars, taskVars, calcVars, goalVars>>

\* the variables of the screens other than the streak screen
beyondStreaks == <<taskVars, calcVars, goalVars>>

\* the variables of the screens other than the daily tasks screen
beyondTasks == <<streakVars, calcVars, goalVars>>

\* the variables of the screens, the goal functions apart
beyondCalc == <<streakVars, taskVars, goalVars>>

\* the variables of the screens other than the goal list and the goal detail
beyondGoals == <<streakVars, taskVars, calcVars>>

stats == <<currentStreak, longestStreak, totalHours, averageHours, consistencyScore>>

-----------------------------------------------------------------------------
(* Bounds of the model *)

MaxEntries == 3      \* entries of a stored record in the aggregation inputs
MaxPending == 2      \* AsyncStorage requests in flight
MaxGridEntries == 2  \* entries of the record when a cell is pressed in the grid model
MaxTaskClock == 4    \* the last instant at which the tasks screen starts a write
MaxWeeks == 3        \* weeks of a goal the progress functions are applied to
MaxSpan == 20        \* days from the start to the end date given to getWeeksBetweenDates
MaxWeekTasks == 2    \* tasks of a week beyond which the detail screen adds no task

-----------------------------------------------------------------------------
(* Calendar: the Date built-ins the source relies on *)

MS_PER_DAY == 86400000

InvalidDate == [day |-> 0, ms |-> -1]

\* Date.UTC(y, m, d) in days since the epoch, for a month 1..12 and any day
\* offset d (MakeDay: a day beyond the month's end rolls into the next month).
DaysFromCivil(y, m, d) ==
    LET yy  == IF m <= 2 THEN y - 1 ELSE y
        era == yy \div 400
        yoe == yy - era * 400
        mp  == IF m > 2 THEN m - 3 ELSE m + 9
        doy == (153 * mp + 2) \div 5 + d - 1
        doe == yoe * 365 + yoe \div 4 - yoe \div 100 + doy
    IN  era * 146097 + doe - 719468

\* <<getUTCFullYear, getUTCMonth() + 1, getUTCDate>> of a day number.
CivilFromDays(n) ==
    LET z   == n + 719468
        era == z \div 146097
        doe == z - era * 146097
        yoe == (doe - doe \div 1460 + doe \div 36524 - doe \div 146096) \div 365
        doy == doe - (365 * yoe + yoe \div 4 - yoe \div 100)
        mp  == (5 * doy + 2) \div 153
        d   == doy - (153 * mp + 2) \div 5 + 1
        m   == IF mp < 10 THEN mp + 3 ELSE mp - 9
        y   == yoe + era * 400 + (IF m <= 2 THEN 1 ELSE 0)
    IN  <<y, m, d>>

DaysInMonth(y, m) == DaysFromCivil(IF m = 12 THEN y + 1 ELSE y, IF m = 12 THEN 1 ELSE m + 1, 1)
                     - DaysFromCivil(y, m, 1)

\* new Date(dateStr + 'T00:00:00Z'): UTC midnight of the day; a day 29 .. 31
\* that the month lacks rolls over into the next month ('2024-02-30' is
\* 2024-03-01); Invalid Date for a month outside 1 .. 12 or a day outside
\* 1 .. 31.
ParseDate(dateStr) ==
    IF /\ dateStr[2] \in 1..12
       /\ dateStr[3] \in 1..31
    THEN [day |-> DaysFromCivil(dateStr[1], dateStr[2], dateStr[3]), ms |-> 0]
    ELSE InvalidDate

\* getUTCDateString(date), streaks.js:23-31: the UTC date of date, and
\* today's UTC date for an argument that is no valid Date
getUTCDateString(date) ==
    IF date = InvalidDate THEN CivilFromDays(now.day) ELSE CivilFromDays(date.day)

\* a >= b on Dates: a comparison with Invalid Date (NaN) is false.
DateGE(a, b) ==
    /\ a # InvalidDate
    /\ b # InvalidDate
    /\ \/ a.day > b.day
       \/ a.day = b.day /\ a.ms >= b.ms

\* date.setUTCMonth(date.getUTCMonth() - k): same day of month and time of
\* day, k months earlier; a day number the target month lacks rolls over.
SetUTCMonthBack(date, k) ==
    LET c   == CivilFromDays(date.day)
        idx == c[1] * 12 + (c[2] - 1) - k
        y   == idx \div 12
        m   == (idx % 12) + 1
    IN  [day |-> DaysFromCivil(y, m, 1) + c[3] - 1, ms |-> date.ms]

\* date.setUTCHours(0, 0, 0, 0)
SetUTCMidnight(date) == [day |-> date.day, ms |-> 0]

-----------------------------------------------------------------------------
(* JSON values *)

Num(h)     == [type |-> "number", val |-> h, nan |-> FALSE]
NumStr(h)  == [type |-> "string", val |-> h, nan |-> FALSE]
NullValue  == [type |-> "object", val |-> 0, nan |-> FALSE]

\* typeof v === 'number'
IsNumber(v) == v.type = "number"

\* v > 0 (ToNumber, then the comparison; NaN compares false)
GreaterThanZero(v) == ~v.nan /\ v.val > 0

\* the truthiness of v: null, 0, NaN and "" are falsy (a numeric string is
\* a non-empty string)
Truthy(v) ==
    CASE v.type = "number" -> ~v.nan /\ v.val # 0
      [] v.type = "string" -> TRUE
      [] OTHER -> FALSE

EmptyRecord == [k \in {} |-> Num(0)]

Restrict(f, S) == [k \in S |-> f[k]]

RECURSIVE GCD(_, _)
GCD(a, b) == IF b = 0 THEN a ELSE GCD(b, a % b)

Abs(x) == IF x < 0 THEN -x ELSE x

\* the number n / d (d > 0) as a fraction in lowest terms
Ratio(n, d) ==
    LET g == GCD(Abs(n), d)
    IN  [num |-> n \div g, den |-> d \div g]

Zero == Ratio(0, 1)

-----------------------------------------------------------------------------
(* processDataAndUpdateState, streaks.js:78-176: the pure part *)

RETENTION_MONTHS == 6
CONSISTENCY_DAYS == 30

\* Math.round((a.getTime() - b.getTime()) / (1000 * 60 * 60 * 24))
DiffDays(a, b) ==
    LET x == a.ms - b.ms
    IN  (a.day - b.day)
        + (IF 2 * x >= MS_PER_DAY THEN 1 ELSE IF 2 * x < -MS_PER_DAY THEN -1 ELSE 0)

\* streaks.js:85-86
cutoffDate(t) == SetUTCMonthBack(t, RETENTION_MONTHS)

\* cleanedHeatmapData with each kept entry stored under the day before its
\* own (the key parsed in one time zone and formatted in another)
cleanedHeatmapData_ShiftedKey(validHeatmapData, t) ==
    LET kept == {dateStr \in DOMAIN validHeatmapData :
                    DateGE(ParseDate(dateStr), cutoffDate(t))}
    IN  [d \in {CivilFromDays(ParseDate(k).day - 1) : k \in kept} |->
            validHeatmapData[CivilFromDays(ParseDate(d).day + 1)]]

\* streaks.js:84-93
cleanedHeatmapData(validHeatmapData, t) ==
    Restrict(validHeatmapData,
             {dateStr \in DOMAIN validHeatmapData :
                 DateGE(ParseDate(dateStr), cutoffDate(t))})

\* PositiveKeys with >= 0 in place of > 0
PositiveKeys_ZeroCounts(cleaned) ==
    {dateStr \in DOMAIN cleaned : IsNumber(cleaned[dateStr]) /\ cleaned[dateStr].val >= 0}

\* streaks.js:96-97: the keys the filter lets through
PositiveKeys(cleaned) ==
    {dateStr \in DOMAIN cleaned : IsNumber(cleaned[dateStr]) /\ GreaterThanZero(cleaned[dateStr])}

Min(S) == CHOOSE x \in S : \A y \in S : x <= y
Max(S) == CHOOSE x \in S : \A y \in S : x >= y

\* the days the keys K parse to, ascending, one element for each key (two
\* keys may parse to the same day)
RECURSIVE SortedDays(_)
SortedDays(K) ==
    IF K = {} THEN << >>
    ELSE LET first == CHOOSE k \in K :
                          \A j \in K : ParseDate(k).day <= ParseDate(j).day
         IN  <<ParseDate(first).day>> \o SortedDays(K \ {first})

\* streaks.js:96-99: the UTC midnights of the positive days, ascending
\* (as day numbers; every element is a midnight)
datesWithPositiveHours(cleaned) == SortedDays(PositiveKeys(cleaned))

\* streaks.js:108-120: the loop from index i on, as <<tempStreak, newLongestStreak>>
RECURSIVE StreakLoop(_, _, _, _)
StreakLoop(dates, i, tempStreak, longest) ==
    IF i > Len(dates) THEN <<tempStreak, longest>>
    ELSE IF DiffDays([day |-> dates[i], ms |-> 0], [day |-> dates[i - 1], ms |-> 0]) = 1
         THEN StreakLoop(dates, i + 1, tempStreak + 1, longest)
         ELSE StreakLoop(dates, i + 1, 1, IF longest > tempStreak THEN longest ELSE tempStreak)

\* newLongestStreak without the final Math.max of streaks.js:121
newLongestStreak_NoFinalCheck(cleaned) ==
    LET dates == datesWithPositiveHours(cleaned)
        r     == StreakLoop(dates, 2, 1, 1)
    IN  IF Len(dates) > 0 THEN r[2] ELSE 0

\* streaks.js:101-121
newLongestStreak(cleaned) ==
    LET dates == datesWithPositiveHours(cleaned)
        r     == StreakLoop(dates, 2, 1, 1)
    IN  IF Len(dates) > 0
        THEN (IF r[2] > r[1] THEN r[2] ELSE r[1])
        ELSE 0

\* IsRecent with < 1 in place of <= 1
IsRecent_TodayOnly(diffFromTodayInDays) == diffFromTodayInDays < 1

\* streaks.js:129: the last active day counts as current
IsRecent(diffFromTodayInDays) == diffFromTodayInDays <= 1

\* newCurrentStreak if it took the number of positive days for the last segment
newCurrentStreak_CountsAll(cleaned, t) ==
    LET dates == datesWithPositiveHours(cleaned)
        lastActiveDate == [day |-> dates[Len(dates)], ms |-> 0]
    IN  IF Len(dates) > 0
        THEN (IF IsRecent(DiffDays(SetUTCMidnight(t), lastActiveDate)) THEN Len(dates) ELSE 0)
        ELSE 0

\* streaks.js:102, 123-134
newCurrentStreak(cleaned, t) ==
    LET dates == datesWithPositiveHours(cleaned)
        r     == StreakLoop(dates, 2, 1, 1)
        lastActiveDate == [day |-> dates[Len(dates)], ms |-> 0]
    IN  IF Len(dates) > 0
        THEN (IF IsRecent(DiffDays(SetUTCMidnight(t), lastActiveDate)) THEN r[1] ELSE 0)
        ELSE 0

\* CountedKeys that skips an explicit 0
CountedKeys_SkipZero(cleaned) ==
    {dateStr \in DOMAIN cleaned : IsNumber(cleaned[dateStr]) /\ cleaned[dateStr].val # 0}

\* streaks.js:142-143: the entries the summary counts
CountedKeys(cleaned) == {dateStr \in DOMAIN cleaned : IsNumber(cleaned[dateStr])}

RECURSIVE SumOver(_, _)
SumOver(f, S) ==
    IF S = {} THEN 0
    ELSE LET k == CHOOSE x \in S : TRUE
         IN  f[k].val + SumOver(f, S \ {k})

\* streaks.js:140-147
sumHours(cleaned) == SumOver(cleaned, CountedKeys(cleaned))

recordedDaysCount(cleaned) == Cardinality(CountedKeys(cleaned))

\* streaks.js:150 (sumHours is in half hours, the quotient in hours)
newAverageHours(cleaned) ==
    IF recordedDaysCount(cleaned) > 0
    THEN Ratio(sumHours(cleaned), 2 * recordedDaysCount(cleaned))
    ELSE Zero

\* streaks.js:164: data[dateStr] && data[dateStr] > 0
HasActivity(data, dateStr) ==
    /\ dateStr \in DOMAIN data
    /\ Truthy(data[dateStr])
    /\ GreaterThanZero(data[dateStr])

\* streaks.js:159-167
daysWithActivity(data, t) ==
    Cardinality({i \in 0..(CONSISTENCY_DAYS - 1) :
                    HasActivity(data, getUTCDateString([day |-> t.day - i, ms |-> t.ms]))})

\* streaks.js:154-170
calculateConsistencyScore(data, t) == Ratio(daysWithActivity(data, t), CONSISTENCY_DAYS)

\* processDataAndUpdateState without the call of setConsistencyScore
processDataAndUpdateState_NoConsistency(validHeatmapData) ==
    LET cleaned == cleanedHeatmapData(validHeatmapData, now)
    IN  /\ heatmapData' = cleaned
        /\ currentStreak' = newCurrentStreak(cleaned, now)
        /\ longestStreak' = newLongestStreak(cleaned)
        /\ totalHours' = sumHours(cleaned)
        /\ averageHours' = newAverageHours(cleaned)
        /\ consistencyScore' = consistencyScore

\* processDataAndUpdateState(currentHeatmapData): every setter it calls;
\* its return value is { heatmapData: cleanedHeatmapData }.
processDataAndUpdateState(validHeatmapData) ==
    LET cleaned == cleanedHeatmapData(validHeatmapData, now)
    IN  /\ heatmapData' = cleaned
        /\ currentStreak' = newCurrentStreak(cleaned, now)
        /\ longestStreak' = newLongestStreak(cleaned)
        /\ totalHours' = sumHours(cleaned)
        /\ averageHours' = newAverageHours(cleaned)
        /\ consistencyScore' = calculateConsistencyScore(cleaned, now)

-----------------------------------------------------------------------------
(* Inputs *)

\* the instants a behaviour may run at: a UTC midnight, a noon, and a noon
\* whose day of month (31) the month six months earlier lacks
Nows ==
    { [day |-> DaysFromCivil(2024, 1, 3), ms |-> 0],
      [day |-> DaysFromCivil(2024, 1, 3), ms |-> MS_PER_DAY \div 2],
      [day |-> DaysFromCivil(2024, 8, 31), ms |-> MS_PER_DAY \div 2] }

\* the instant the screen model runs at: a Sunday noon, the first day of the
\* last grid column, so that the one cell a user can press is today
ScreenNows == { [day |-> DaysFromCivil(2025, 3, 30), ms |-> MS_PER_DAY \div 2] }

\* a key that is no calendar date
BadKey == <<2024, 13, 1>>

DayKey(n) == CivilFromDays(n)

\* keys of the aggregation inputs: tomorrow .. three days ago, the days
\* around the cutoff, and an unparseable key
AggKeys(t) ==
    {DayKey(t.day + 1 - i) : i \in 0..4}
    \cup {DayKey(cutoffDate(t).day + i) : i \in {-1, 0, 1}}
    \cup {BadKey}

\* values of the aggregation inputs: -1 h, 0 h, 0.5 h, 2 h, the string "1", null
AggValues == {Num(-2), Num(0), Num(1), Num(4), NumStr(2), NullValue}

\* every record with keys K, values in V and at most n entries
RecordsOver(K, V, n) ==
    UNION {[D -> V] : D \in {D \in SUBSET K : Cardinality(D) <= n}}

\* the stored item: no item, a string that is no JSON, a document without
\* heatmapData, a document whose heatmapData is an array, or a document
\* whose heatmapData is the object data
StoredItem(kind, data) == [kind |-> kind, data |-> data]

NoItem == StoredItem("absent", EmptyRecord)

\* keys and values of the record stored when the screen model starts:
\* yesterday and a day older than the retention window
ScreenKeys(t) == {DayKey(t.day - 1), DayKey(cutoffDate(t).day - 1)}

ScreenValues == {Num(1)}

ScreenItems(t) ==
    {NoItem, StoredItem("malformed", EmptyRecord), StoredItem("nofield", EmptyRecord)}
    \cup {StoredItem("object", r) : r \in [ScreenKeys(t) -> ScreenValues]}
    \cup {StoredItem("object", r) : r \in [{DayKey(t.day - 1)} -> ScreenValues]}

\* the texts a user may enter for the hours of a day
Texts == {"abc", "-1", "0.3", "0", "2"}

\* parseFloat(text), in tenths of an hour
parseFloat(text) ==
    CASE text = "abc" -> [nan |-> TRUE,  tenths |-> 0]
      [] text = "-1"  -> [nan |-> FALSE, tenths |-> -10]
      [] text = "0.3" -> [nan |-> FALSE, tenths |-> 3]
      [] text = "0"   -> [nan |-> FALSE, tenths |-> 0]
      [] text = "2"   -> [nan |-> FALSE, tenths |-> 20]

\* streaks.js:238 without the half-hour test
InvalidHours_AnyFraction(newHours) ==
    newHours.nan \/ newHours.tenths < 0

\* streaks.js:238: isNaN(newHours) || newHours < 0 || newHours % 0.5 !== 0
InvalidHours(newHours) ==
    newHours.nan \/ newHours.tenths < 0 \/ newHours.tenths % 5 # 0

\* the texts of the hour options of the input modal (item.toString() of
\* hourOptions, streaks.js:58, 281)
ModalItems == {"0", "2"}

-----------------------------------------------------------------------------
(* generateHeatmapGridUIData, streaks.js:309-352 *)

NUM_WEEKS_TO_SHOW == 10

\* the value of a missing property
Undefined == [type |-> "undefined", val |-> 0, nan |-> TRUE]

\* getUTCDay if the week began on Monday (0 = Monday .. 6 = Sunday)
getUTCDay_MondayFirst(date) == (date.day + 3) % 7

\* date.getUTCDay(): 0 = Sunday .. 6 = Saturday (1970-01-01 was a Thursday)
getUTCDay(date) == (date.day + 4) % 7

\* date.setUTCDate(date.getUTCDate() + k) if the day of the month stopped at
\* the ends of the month instead of rolling over
AddUTCDays_Clamped(date, k) ==
    LET c == CivilFromDays(date.day)
        d == Max({1, Min({c[3] + k, DaysInMonth(c[1], c[2])})})
    IN  [day |-> DaysFromCivil(c[1], c[2], d), ms |-> date.ms]

\* date.setUTCDate(date.getUTCDate() + k)
AddUTCDays(date, k) == [day |-> date.day + k, ms |-> date.ms]

\* getStartOfWeekUTC(date), streaks.js:36-43
getStartOfWeekUTC(date) ==
    LET dt == SetUTCMidnight(date)
    IN  AddUTCDays(dt, -getUTCDay(dt))

\* a.getTime() > b.getTime()
DateGT(a, b) == a.day > b.day \/ (a.day = b.day /\ a.ms > b.ms)

\* streaks.js:326 if the comparison were made against the end of tomorrow
isFuture_AfterTomorrow(cellDate, todayNormalized) ==
    DateGT(cellDate, [day |-> todayNormalized.day + 1, ms |-> todayNormalized.ms])

\* streaks.js:326
isFuture(cellDate, todayNormalized) == DateGT(cellDate, todayNormalized)

\* streaks.js:314-316
currentWeekStartDate(t) ==
    AddUTCDays(getStartOfWeekUTC(SetUTCMidnight(t)), -((NUM_WEEKS_TO_SHOW - 1) * 7))

\* streaks.js:321-334: the cell of week weekIndex and day dayIndexInWeek
HeatmapCell(data, t, weekIndex, dayIndexInWeek) ==
    LET todayNormalized == SetUTCMidnight(t)
        cellDate == AddUTCDays(currentWeekStartDate(t), weekIndex * 7 + dayIndexInWeek)
        dateStr  == getUTCDateString(cellDate)
    IN  [date     |-> dateStr,
         hours    |-> IF dateStr \in DOMAIN data THEN data[dateStr] ELSE Undefined,
         isFuture |-> isFuture(cellDate, todayNormalized),
         isToday  |-> /\ dateStr = getUTCDateString(todayNormalized)
                      /\ ~isFuture(cellDate, todayNormalized)]

\* generateHeatmapGridUIData(currentHeatmapDataMap): transposedGrid, indexed
\* [dayOfWeek + 1][weekIdx + 1]
generateHeatmapGridUIData(data, t) ==
    [dayOfWeek \in 1..7 |->
        [weekIdx \in 1..NUM_WEEKS_TO_SHOW |-> HeatmapCell(data, t, weekIdx - 1, dayOfWeek - 1)]]

-----------------------------------------------------------------------------
(* The screen *)

NoDate == <<0, 0, 0>>

NoDialog == [kind |-> "none", date |-> NoDate, closure |-> EmptyRecord]

Call(fn, dateStr, text) == [fn |-> fn, date |-> dateStr, text |-> text]

NoCall == Call("", NoDate, "")

Platforms == {"ios", "android"}

\* tasks.js: the stored item: no item, a string that is no JSON, or the
\* JSON of the array list
TaskItem(kind, list) == [kind |-> kind, list |-> list]

NoTaskItem == TaskItem("absent", << >>)

NoId == 0

NoTaskDialog == [kind |-> "none", id |-> NoId, closure |-> << >>]

\* a call of handler fn for task id with the name and duration entered;
\* alert is the title of the Alert.alert it raised, "" when none
TaskCall(fn, id, name, duration, alertTitle) ==
    [fn |-> fn, id |-> id, name |-> name, duration |-> duration, alert |-> alertTitle]

NoTaskCall == TaskCall("", NoId, "", 0, "")

NoIdeal == [known |-> FALSE, list |-> << >>]

\* the daily tasks screen is not mounted
TasksIdle ==
    /\ tasks = << >>
    /\ taskStorage = NoTaskItem
    /\ taskPending = << >>
    /\ taskLoad = "pending"
    /\ taskDialog = NoTaskDialog
    /\ taskClock = 0
    /\ taskCall = NoTaskCall
    /\ taskIdeal = NoIdeal

\* part_001: a goal as stored under '@goals' or held in state.  weeks is
\* [kind, list]: kind "missing" for no weeks field, "object" for the object
\* whose values, in key order week_0, week_1, ..., are list; tasks of a
\* week likewise is [kind, list] with kind "missing" or "array"; progress
\* is [set, val]: set tells that the object has a progress field
GoalTask(completed) == [completed |-> completed]

NoTasks == [kind |-> "missing", list |-> << >>]

TaskArray(list) == [kind |-> "array", list |-> list]

Week(startDate, endDate, weekTasks) ==
    [startDate |-> startDate, endDate |-> endDate, tasks |-> weekTasks]

NoWeeks == [kind |-> "missing", list |-> << >>]

WeeksObject(list) == [kind |-> "object", list |-> list]

NoProgress == [set |-> FALSE, val |-> Zero]

Goal(id, startDate, endDate, weeks, progress) ==
    [id |-> id, startDate |-> startDate, endDate |-> endDate, weeks |-> weeks,
     progress |-> progress]

\* null
NullGoal == Goal(NoId, NoDate, NoDate, NoWeeks, NoProgress)

\* the item under '@goals': no item, a string that is no JSON, or the JSON
\* of the array list
GoalsItem(kind, list) == [kind |-> kind, list |-> list]

NoGoalsItem == GoalsItem("absent", << >>)

GoalsCall(fn, id, alertTitle) == [fn |-> fn, id |-> id, alert |-> alertTitle]

NoGoalsCall == GoalsCall("", NoId, "")

\* the streak screen is not mounted
StreaksIdle ==
    /\ pending = << >>
    /\ heatmapData = EmptyRecord
    /\ currentStreak = 0
    /\ longestStreak = 0
    /\ totalHours = 0
    /\ averageHours = Zero
    /\ consistencyScore = Zero
    /\ isLoading = TRUE
    /\ alert = ""
    /\ loaded = FALSE
    /\ dialog = NoDialog
    /\ call = NoCall
    /\ failed = {}

\* no goal function has been applied
CalcIdle ==
    /\ calcGoal = NullGoal
    /\ calcList = NoProgress
    /\ calcDetail = NoProgress
    /\ weeksArgs = <<NoDate, NoDate>>
    /\ weeksOut = NoWeeks

\* the goal list screen is not mounted
ListIdle ==
    /\ goals = << >>
    /\ goalsPending = << >>
    /\ goalsDialog = NoId
    /\ goalsCall = NoGoalsCall

\* the goal detail screen is not mounted
DetailIdle ==
    /\ goalId = NoId
    /\ canGoBack = FALSE
    /\ detailFocused = FALSE
    /\ goal = NullGoal
    /\ goalGen = 0
    /\ loading = TRUE
    /\ detailPending = << >>
    /\ detailDialog = [kind |-> "none", week |-> 0, task |-> 0, closure |-> NullGoal, gen |-> 0]
    /\ detailCall = NoGoalsCall

GoalsIdle ==
    /\ goalsStorage = NoGoalsItem
    /\ ListIdle
    /\ DetailIdle

InitScreen ==
    /\ StreaksIdle
    /\ TasksIdle
    /\ CalcIdle
    /\ GoalsIdle

Init ==
    /\ now \in ScreenNows
    /\ platform \in Platforms
    /\ storage \in ScreenItems(now)
    /\ InitScreen

GetRequest == [op |-> "getItem", item |-> NoItem]
SetRequest(item) == [op |-> "setItem", item |-> item]
RemoveRequest == [op |-> "removeItem", item |-> NoItem]

\* the screen shows the grid and the Clear button (streaks.js:478-480)
Rendered == ~(isLoading /\ DOMAIN heatmapData = {})

\* no modal or prompt covers the screen
NoDialogOpen == dialog.kind = "none"

\* useFocusEffect -> loadData, up to the await (streaks.js:179-183, 197-204)
Focus ==
    /\ NoDialogOpen
    /\ Len(pending) < MaxPending
    /\ isLoading' = TRUE
    /\ pending' = Append(pending, GetRequest)
    /\ alert' = ""
    /\ call' = Call("Focus", NoDate, "")
    /\ UNCHANGED <<beyondStreaks, now, platform, storage, heatmapData, stats, loaded, dialog, failed>>

\* storedData?.heatmapData || {} followed by the validHeatmapData test
\* (streaks.js:79-81, 184-186)
loadedHeatmapData(item) == IF item.kind = "object" THEN item.data ELSE EmptyRecord

\* loadData after getItem resolves (streaks.js:184-194)
LoadResolved ==
    /\ pending # << >>
    /\ Head(pending).op = "getItem"
    /\ pending' = Tail(pending)
    /\ IF storage.kind = "malformed"
       THEN /\ alert' = "Error"
            /\ failed' = failed \cup {"read"}
            /\ processDataAndUpdateState(EmptyRecord)
       ELSE /\ alert' = ""
            /\ failed' = failed
            /\ processDataAndUpdateState(loadedHeatmapData(storage))
    /\ isLoading' = FALSE
    /\ loaded' = TRUE
    /\ call' = Call("LoadResolved", NoDate, "")
    /\ UNCHANGED <<beyondStreaks, now, platform, storage, dialog>>

\* loadData after getItem rejects, if the catch block left the state alone
LoadRejected_KeepsState ==
    /\ pending # << >>
    /\ Head(pending).op = "getItem"
    /\ pending' = Tail(pending)
    /\ alert' = "Error"
    /\ isLoading' = FALSE
    /\ loaded' = TRUE
    /\ call' = Call("LoadRejected", NoDate, "")
    /\ failed' = failed \cup {"read"}
    /\ UNCHANGED <<beyondStreaks, now, platform, storage, dialog, heatmapData, stats>>

\* loadData after getItem rejects (streaks.js:187-194)
LoadRejected ==
    /\ pending # << >>
    /\ Head(pending).op = "getItem"
    /\ pending' = Tail(pending)
    /\ alert' = "Error"
    /\ processDataAndUpdateState(EmptyRecord)
    /\ isLoading' = FALSE
    /\ loaded' = TRUE
    /\ call' = Call("LoadRejected", NoDate, "")
    /\ failed' = failed \cup {"read"}
    /\ UNCHANGED <<beyondStreaks, now, platform, storage, dialog>>

\* a press on the cell of row dayIndex and column weekIndex of the rendered
\* grid: handleHoursInput(cell.date, cell.hours) (streaks.js:207-233,
\* 417-422). The prompt's OK handler keeps the saveHoursForDate of the
\* render that opened it, and with it that render's heatmapData; the
\* modal is rendered anew with every render.
PressCell(dayIndex, weekIndex) ==
    LET cell == generateHeatmapGridUIData(heatmapData, now)[dayIndex + 1][weekIndex + 1]
    IN  /\ Rendered
        /\ NoDialogOpen
        /\ ~cell.isFuture
        /\ dialog' = IF platform = "ios"
                     THEN [kind |-> "prompt", date |-> cell.date, closure |-> heatmapData]
                     ELSE [kind |-> "modal", date |-> cell.date, closure |-> EmptyRecord]
        /\ alert' = ""
        /\ call' = Call("PressCell", cell.date, "")
        /\ UNCHANGED <<beyondStreaks, now, platform, storage, pending, heatmapData, stats, isLoading, loaded, failed>>

\* the modal is mounted: renderInputModal() is part of the main render
\* only (streaks.js:478-480); the prompt and the alerts are native
ModalMounted == dialog.kind = "modal" /\ Rendered

\* Cancel in the prompt, in the modal or in the 'Confirm Clear' alert
\* (streaks.js:214, 296-301, 457)
DialogCancel ==
    /\ ~NoDialogOpen
    /\ dialog.kind = "modal" => ModalMounted
    /\ dialog' = NoDialog
    /\ alert' = ""
    /\ call' = Call("DialogCancel", NoDate, "")
    /\ UNCHANGED <<beyondStreaks, now, platform, storage, pending, heatmapData, stats, isLoading, loaded, failed>>

\* saveHoursForDate(dateStr, text) with an invalid text (streaks.js:237-244)
SaveHoursRejected(dateStr, text) ==
    /\ InvalidHours(parseFloat(text))
    /\ alert' = "Invalid Input"
    /\ UNCHANGED <<storage, pending, heatmapData, stats>>

\* streaks.js:246: { ...heatmapData, [dateStr]: newHours }
updatedHeatmapData(data, dateStr, newHours) ==
    [k \in DOMAIN data \cup {dateStr} |-> IF k = dateStr THEN Num(newHours) ELSE data[k]]

\* saveHoursForDate(dateStr, text) with a valid text, up to the await in
\* saveData (streaks.js:63-69, 246-248); data is the heatmapData the
\* function closes over
SaveHoursAccepted(data, dateStr, text) ==
    LET newHours == parseFloat(text).tenths \div 5
        updated  == updatedHeatmapData(data, dateStr, newHours)
    IN  /\ ~InvalidHours(parseFloat(text))
        /\ Len(pending) < MaxPending
        /\ processDataAndUpdateState(updated)
        /\ pending' = Append(pending,
                             SetRequest(StoredItem("object", cleanedHeatmapData(updated, now))))
        /\ alert' = ""
        /\ UNCHANGED storage

\* saveHoursForDate(dateStr, text), streaks.js:236-249
saveHoursForDate(data, dateStr, text) ==
    \/ SaveHoursRejected(dateStr, text)
    \/ SaveHoursAccepted(data, dateStr, text)

\* OK in the prompt with the text entered (streaks.js:215-220)
PromptOK(text) ==
    /\ dialog.kind = "prompt"
    /\ saveHoursForDate(dialog.closure, dialog.date, text)
    /\ dialog' = NoDialog
    /\ call' = Call("saveHoursForDate", dialog.date, text)
    /\ UNCHANGED <<beyondStreaks, now, platform, isLoading, loaded, failed>>

\* a press on an hour option of the modal (streaks.js:279-282)
ModalOption(item) ==
    /\ ModalMounted
    /\ saveHoursForDate(heatmapData, dialog.date, item)
    /\ dialog' = NoDialog
    /\ call' = Call("saveHoursForDate", dialog.date, item)
    /\ UNCHANGED <<beyondStreaks, now, platform, isLoading, loaded, failed>>

\* saveData after setItem resolves (streaks.js:69-70)
SaveResolved ==
    /\ pending # << >>
    /\ Head(pending).op = "setItem"
    /\ storage' = Head(pending).item
    /\ pending' = Tail(pending)
    /\ alert' = ""
    /\ call' = Call("SaveResolved", NoDate, "")
    /\ UNCHANGED <<beyondStreaks, now, platform, heatmapData, stats, isLoading, loaded, dialog, failed>>

\* saveData after setItem rejects, if the catch block queued the write again
SaveRejected_Retries ==
    /\ pending # << >>
    /\ Head(pending).op = "setItem"
    /\ pending' = Append(Tail(pending), Head(pending))
    /\ alert' = "Error"
    /\ call' = Call("SaveRejected", NoDate, "")
    /\ failed' = failed \cup {"write"}
    /\ UNCHANGED <<beyondStreaks, now, platform, storage, heatmapData, stats, isLoading, loaded, dialog>>

\* saveData after setItem rejects (streaks.js:71-74)
SaveRejected ==
    /\ pending # << >>
    /\ Head(pending).op = "setItem"
    /\ pending' = Tail(pending)
    /\ alert' = "Error"
    /\ call' = Call("SaveRejected", NoDate, "")
    /\ failed' = failed \cup {"write"}
    /\ UNCHANGED <<beyondStreaks, now, platform, storage, heatmapData, stats, isLoading, loaded, dialog>>

\* a press on 'Clear All Data': clearAllData() raises the 'Confirm Clear'
\* alert and returns (streaks.js:453-474, 524)
clearAllData ==
    /\ Rendered
    /\ NoDialogOpen
    /\ dialog' = [kind |-> "confirm", date |-> NoDate, closure |-> EmptyRecord]
    /\ alert' = "Confirm Clear"
    /\ call' = Call("clearAllData", NoDate, "")
    /\ UNCHANGED <<beyondStreaks, now, platform, storage, pending, heatmapData, stats, isLoading, loaded, failed>>

\* a press on 'Clear Data' in the alert: its onPress, up to the await
\* (streaks.js:458-464)
ClearConfirmed ==
    /\ dialog.kind = "confirm"
    /\ Len(pending) < MaxPending
    /\ pending' = Append(pending, RemoveRequest)
    /\ dialog' = NoDialog
    /\ alert' = ""
    /\ call' = Call("ClearConfirmed", NoDate, "")
    /\ UNCHANGED <<beyondStreaks, now, platform, storage, heatmapData, stats, isLoading, loaded, failed>>

\* clearAllData after removeItem resolves (streaks.js:465-466)
ClearResolved ==
    /\ pending # << >>
    /\ Head(pending).op = "removeItem"
    /\ storage' = NoItem
    /\ pending' = Tail(pending)
    /\ processDataAndUpdateState(EmptyRecord)
    /\ alert' = "Data Cleared"
    /\ call' = Call("ClearResolved", NoDate, "")
    /\ UNCHANGED <<beyondStreaks, now, platform, isLoading, loaded, dialog, failed>>

\* clearAllData after removeItem rejects (streaks.js:467-470)
ClearRejected ==
    /\ pending # << >>
    /\ Head(pending).op = "removeItem"
    /\ pending' = Tail(pending)
    /\ alert' = "Error"
    /\ call' = Call("ClearRejected", NoDate, "")
    /\ UNCHANGED <<beyondStreaks, failed, now, platform, storage, heatmapData, stats, isLoading, loaded, dialog>>

\* the cells the screen model presses: the column of the current week
ScreenCells == {<<dayIndex, NUM_WEEKS_TO_SHOW - 1>> : dayIndex \in 0..6}

Next ==
    \/ Focus
    \/ LoadResolved
    \/ LoadRejected
    \/ \E c \in ScreenCells : PressCell(c[1], c[2])
    \/ DialogCancel
    \/ \E text \in Texts : PromptOK(text)
    \/ \E item \in ModalItems : ModalOption(item)
    \/ SaveResolved
    \/ SaveRejected
    \/ clearAllData
    \/ ClearConfirmed
    \/ ClearResolved
    \/ ClearRejected

Spec == Init /\ [][Next]_vars

-----------------------------------------------------------------------------
(* The grid: the screen on every day of a week. The user presses a cell of
   the current week's column or the oldest cell, and acts only when no
   storage request is in flight. *)

\* a Monday whose grid reaches back into the year before, and the seven days
\* from Monday 2024-02-26 to Sunday 2024-03-03 (a leap day among them), at
\* midnight and at noon alternately
GridNows ==
    { [day |-> DaysFromCivil(2024, 1, 1), ms |-> 0] }
    \cup { [day |-> DaysFromCivil(2024, 2, 26) + i, ms |-> (i % 2) * (MS_PER_DAY \div 2)] :
             i \in 0..6 }

GridCells == {<<dayIndex, NUM_WEEKS_TO_SHOW - 1>> : dayIndex \in 0..6} \cup {<<0, 0>>}

InitGrid ==
    /\ now \in GridNows
    /\ platform \in Platforms
    /\ storage = NoItem
    /\ InitScreen

NextGrid ==
    \/ (~loaded /\ pending = << >> /\ Focus)
    \/ LoadResolved
    \/ \E c \in GridCells :
          /\ pending = << >>
          /\ Cardinality(DOMAIN heatmapData) < MaxGridEntries
          /\ PressCell(c[1], c[2])
    \/ DialogCancel
    \/ \E text \in Texts : PromptOK(text)
    \/ \E item \in ModalItems : ModalOption(item)
    \/ SaveResolved

SpecGrid == InitGrid /\ [][NextGrid]_vars

-----------------------------------------------------------------------------
(* The aggregation alone: processDataAndUpdateState applied to a record *)

InitAgg ==
    /\ now \in Nows
    /\ platform = "android"
    /\ storage \in {StoredItem("object", r) : r \in RecordsOver(AggKeys(now), AggValues, MaxEntries)}
    /\ InitScreen

\* one call processDataAndUpdateState(storage.data)
Aggregate ==
    /\ ~loaded
    /\ processDataAndUpdateState(storage.data)
    /\ loaded' = TRUE
    /\ call' = Call("Aggregate", NoDate, "")
    /\ UNCHANGED <<beyondStreaks, now, storage, pending, isLoading, alert, platform, dialog, failed>>

NextAgg == Aggregate

SpecAgg == InitAgg /\ [][NextAgg]_vars

-----------------------------------------------------------------------------
(* The daily tasks screen, tasks.js:312-848 (the second TasksScreen of the
   file, the one with the task menu) *)

\* the first id a task added on the screen gets: the stored tasks were
\* created at the instants 1 and 2
FirstTaskClock == 3

\* a task as addTask builds it (tasks.js:367-373); durations in half hours
Task(id, name, duration, completed) ==
    [id |-> id, name |-> name, duration |-> duration, completed |-> completed,
     createdAt |-> id]

\* the lists stored when the screen mounts
StoredTaskLists ==
    { << >>,
      <<Task(1, "a", 2, FALSE)>>,
      <<Task(1, "a", 2, FALSE), Task(2, "a", 2, TRUE)>> }

TaskItems ==
    {NoTaskItem, TaskItem("malformed", << >>)}
    \cup {TaskItem("list", l) : l \in StoredTaskLists}

\* the names typed into the add field and into the edit field
AddNames == {"", "a"}
EditNames == {"", "b"}

\* the duration picked for a new task (the default, 1 h) and in the edit modal
AddDuration == 2
EditDuration == 3

\* tasks.findIndex(t => t.id === id), counted from 1; 0 when there is none
findIndex(list, id) ==
    IF \E i \in 1..Len(list) : list[i].id = id
    THEN Min({i \in 1..Len(list) : list[i].id = id})
    ELSE 0

\* tasks.js:374: [...tasks, newTask]
WithTask(list, newTask) == Append(list, newTask)

\* tasks.js:416-418
Toggled(list, id) ==
    LET taskIndex == findIndex(list, id)
    IN  [i \in 1..Len(list) |->
            IF i = taskIndex THEN [list[i] EXCEPT !.completed = ~list[i].completed]
            ELSE list[i]]

\* tasks.filter(t => t.id !== id), tasks.js:441
RECURSIVE Without(_, _)
Without(list, id) ==
    IF list = << >> THEN << >>
    ELSE IF Head(list).id = id THEN Without(Tail(list), id)
         ELSE <<Head(list)>> \o Without(Tail(list), id)

\* the list with the elements at i and j exchanged (tasks.js:453-456, 466-469)
Swapped(list, i, j) ==
    [k \in 1..Len(list) |-> IF k = i THEN list[j] ELSE IF k = j THEN list[i] ELSE list[k]]

\* tasks.js:491-493
Edited(list, id, name, duration) ==
    [i \in 1..Len(list) |->
        IF list[i].id = id THEN [list[i] EXCEPT !.name = name, !.duration = duration]
        ELSE list[i]]

\* saveTasks(newTasks) up to the await (tasks.js:356-358); by is the call
\* that made it. The clock advances with every write started.
saveTasks(newTasks, by) ==
    /\ Len(taskPending) < MaxPending
    /\ taskClock <= MaxTaskClock
    /\ taskPending' = Append(taskPending, [op |-> "setItem", list |-> newTasks, by |-> by])
    /\ taskClock' = taskClock + 1

\* JSON.parse of the stored item, stored ? JSON.parse(stored) : [] (tasks.js:349)
parsedTasks(item) == IF item.kind = "list" THEN item.list ELSE << >>

\* loadTasks after getItem resolves (tasks.js:348-353)
loadTasksResolved ==
    /\ taskPending # << >>
    /\ Head(taskPending).op = "getItem"
    /\ taskPending' = Tail(taskPending)
    /\ IF taskStorage.kind = "malformed"
       THEN /\ taskLoad' = "failed"
            /\ UNCHANGED <<tasks, taskIdeal>>
       ELSE /\ taskLoad' = "ok"
            /\ tasks' = parsedTasks(taskStorage)
            /\ taskIdeal' = [known |-> Tail(taskPending) = << >>,
                             list  |-> parsedTasks(taskStorage)]
    /\ taskCall' = TaskCall("loadTasksResolved", NoId, "", 0, "")
    /\ UNCHANGED <<beyondTasks, taskStorage, taskDialog, taskClock>>

\* loadTasks after getItem rejects (tasks.js:351-353)
loadTasksRejected ==
    /\ taskPending # << >>
    /\ Head(taskPending).op = "getItem"
    /\ taskPending' = Tail(taskPending)
    /\ taskLoad' = "failed"
    /\ taskCall' = TaskCall("loadTasksRejected", NoId, "", 0, "")
    /\ UNCHANGED <<beyondTasks, tasks, taskStorage, taskDialog, taskClock, taskIdeal>>

\* no modal and no alert covers the list
TaskListShown == taskDialog.kind = "none"

\* addTask with the name typed (tasks.js:365-378); !duration === undefined
\* is false for every duration
addTask(name) ==
    /\ TaskListShown
    /\ IF name = ""
       THEN /\ taskCall' = TaskCall("addTask", NoId, name, AddDuration, "Error")
            /\ UNCHANGED <<taskPending, taskClock>>
       ELSE LET by == TaskCall("addTask", taskClock, name, AddDuration, "")
            IN  /\ saveTasks(WithTask(tasks, Task(taskClock, name, AddDuration, FALSE)), by)
                /\ taskCall' = by
    /\ UNCHANGED <<beyondTasks, tasks, taskStorage, taskLoad, taskDialog, taskIdeal>>

\* toggleComplete(id) for a task of the list shown (tasks.js:410-434, 600)
toggleComplete(id) ==
    LET by == TaskCall("toggleComplete", id, "", 0, "")
    IN  /\ TaskListShown
        /\ findIndex(tasks, id) # 0
        /\ saveTasks(Toggled(tasks, id), by)
        /\ taskCall' = by
        /\ UNCHANGED <<beyondTasks, tasks, taskStorage, taskLoad, taskDialog, taskIdeal>>

\* moveTaskUp with the first task moved to the top of the list
moveTaskUp_ToTop(id) ==
    LET taskIndex == findIndex(tasks, id)
        by == TaskCall("moveTaskUp", id, "", 0, "")
    IN  /\ TaskListShown
        /\ taskCall' = by
        /\ IF taskIndex <= 1
           THEN UNCHANGED <<taskPending, taskClock>>
           ELSE saveTasks(Swapped(tasks, taskIndex, 1), by)
        /\ UNCHANGED <<beyondTasks, tasks, taskStorage, taskLoad, taskDialog, taskIdeal>>

\* moveTaskUp(selectedTaskId) from the task menu (tasks.js:448-459, 648-651);
\* the selected task may have left the list since the menu opened
moveTaskUp(id) ==
    LET taskIndex == findIndex(tasks, id)
        by == TaskCall("moveTaskUp", id, "", 0, "")
    IN  /\ TaskListShown
        /\ taskCall' = by
        /\ IF taskIndex <= 1
           THEN UNCHANGED <<taskPending, taskClock>>
           ELSE saveTasks(Swapped(tasks, taskIndex, taskIndex - 1), by)
        /\ UNCHANGED <<beyondTasks, tasks, taskStorage, taskLoad, taskDialog, taskIdeal>>

\* moveTaskDown(selectedTaskId) from the task menu (tasks.js:461-472, 659-662)
moveTaskDown(id) ==
    LET taskIndex == findIndex(tasks, id)
        by == TaskCall("moveTaskDown", id, "", 0, "")
    IN  /\ TaskListShown
        /\ taskCall' = by
        /\ IF taskIndex = 0 \/ taskIndex >= Len(tasks)
           THEN UNCHANGED <<taskPending, taskClock>>
           ELSE saveTasks(Swapped(tasks, taskIndex, taskIndex + 1), by)
        /\ UNCHANGED <<beyondTasks, tasks, taskStorage, taskLoad, taskDialog, taskIdeal>>

\* startEditTask(selectedTaskId) from the task menu (tasks.js:475-483, 670-673)
startEditTask(id) ==
    /\ TaskListShown
    /\ findIndex(tasks, id) # 0
    /\ taskDialog' = [kind |-> "edit", id |-> id, closure |-> << >>]
    /\ taskCall' = TaskCall("startEditTask", id, "", 0, "")
    /\ UNCHANGED <<beyondTasks, tasks, taskStorage, taskPending, taskLoad, taskClock, taskIdeal>>

\* saveTaskEdit with the name typed into the edit modal (tasks.js:485-497)
saveTaskEdit(name) ==
    /\ taskDialog.kind = "edit"
    /\ IF name = ""
       THEN /\ taskCall' = TaskCall("saveTaskEdit", taskDialog.id, name, EditDuration, "Error")
            /\ UNCHANGED <<taskPending, taskDialog, taskClock>>
       ELSE LET by == TaskCall("saveTaskEdit", taskDialog.id, name, EditDuration, "")
            IN  /\ saveTasks(Edited(tasks, taskDialog.id, name, EditDuration), by)
                /\ taskDialog' = NoTaskDialog
                /\ taskCall' = by
    /\ UNCHANGED <<beyondTasks, tasks, taskStorage, taskLoad, taskIdeal>>

\* deleteTask(selectedTaskId) from the task menu: the confirmation opens
\* (tasks.js:436-446, 681-684), also for a task that has left the list
\* since the menu opened; its Delete button keeps the tasks of the render
\* that opened it
deleteTask(id) ==
    /\ TaskListShown
    /\ taskDialog' = [kind |-> "delete", id |-> id, closure |-> tasks]
    /\ taskCall' = TaskCall("deleteTask", id, "", 0, "")
    /\ UNCHANGED <<beyondTasks, tasks, taskStorage, taskPending, taskLoad, taskClock, taskIdeal>>

\* Delete in the confirmation (tasks.js:440-443)
deleteTaskConfirmed ==
    LET by == TaskCall("deleteTaskConfirmed", taskDialog.id, "", 0, "")
    IN  /\ taskDialog.kind = "delete"
        /\ saveTasks(Without(taskDialog.closure, taskDialog.id), by)
        /\ taskDialog' = NoTaskDialog
        /\ taskCall' = by
        /\ UNCHANGED <<beyondTasks, tasks, taskStorage, taskLoad, taskIdeal>>

\* Cancel in the confirmation or in the edit modal (tasks.js:438, 754)
taskDialogCancel ==
    /\ taskDialog.kind # "none"
    /\ taskDialog' = NoTaskDialog
    /\ taskCall' = TaskCall("taskDialogCancel", NoId, "", 0, "")
    /\ UNCHANGED <<beyondTasks, tasks, taskStorage, taskPending, taskLoad, taskClock, taskIdeal>>

\* the list that the operation of call by makes of list
Applied(by, list) ==
    CASE by.fn = "addTask" -> WithTask(list, Task(by.id, by.name, by.duration, FALSE))
      [] by.fn = "toggleComplete" -> Toggled(list, by.id)
      [] by.fn = "moveTaskUp" ->
            IF findIndex(list, by.id) <= 1 THEN list
            ELSE Swapped(list, findIndex(list, by.id), findIndex(list, by.id) - 1)
      [] by.fn = "moveTaskDown" ->
            IF findIndex(list, by.id) = 0 \/ findIndex(list, by.id) >= Len(list) THEN list
            ELSE Swapped(list, findIndex(list, by.id), findIndex(list, by.id) + 1)
      [] by.fn = "saveTaskEdit" -> Edited(list, by.id, by.name, by.duration)
      [] by.fn = "deleteTaskConfirmed" -> Without(list, by.id)

\* saveTasks after setItem rejects, if setTasks were called all the same
saveTasksRejected_SetsTasks ==
    /\ taskPending # << >>
    /\ Head(taskPending).op = "setItem"
    /\ taskPending' = Tail(taskPending)
    /\ tasks' = Head(taskPending).list
    /\ taskCall' = TaskCall("saveTasksRejected", NoId, "", 0, "")
    /\ UNCHANGED <<beyondTasks, taskStorage, taskLoad, taskDialog, taskClock, taskIdeal>>

\* saveTasks after setItem rejects (tasks.js:360-362)
saveTasksRejected ==
    /\ taskPending # << >>
    /\ Head(taskPending).op = "setItem"
    /\ taskPending' = Tail(taskPending)
    /\ taskCall' = TaskCall("saveTasksRejected", NoId, "", 0, "")
    /\ UNCHANGED <<beyondTasks, tasks, taskStorage, taskLoad, taskDialog, taskClock, taskIdeal>>

\* saveTasks after setItem resolves (tasks.js:358-359)
saveTasksResolved ==
    /\ taskPending # << >>
    /\ Head(taskPending).op = "setItem"
    /\ taskPending' = Tail(taskPending)
    /\ taskStorage' = TaskItem("list", Head(taskPending).list)
    /\ tasks' = Head(taskPending).list
    /\ taskIdeal' = [taskIdeal EXCEPT !.list = Applied(Head(taskPending).by, @)]
    /\ taskCall' = TaskCall("saveTasksResolved", NoId, "", 0, "")
    /\ UNCHANGED <<beyondTasks, taskLoad, taskDialog, taskClock>>

\* an id of a task that has left the list
StaleId == MaxTaskClock + 1

\* the ids a task menu can hold
TaskIds == 1..StaleId

\* the screen has mounted: useEffect has called loadTasks (tasks.js:342-348)
InitTasks ==
    /\ now \in ScreenNows
    /\ platform = "android"
    /\ storage = NoItem
    /\ StreaksIdle
    /\ CalcIdle
    /\ GoalsIdle
    /\ tasks = << >>
    /\ taskStorage \in TaskItems
    /\ taskPending = <<[op |-> "getItem", list |-> << >>, by |-> NoTaskCall]>>
    /\ taskLoad = "pending"
    /\ taskDialog = NoTaskDialog
    /\ taskClock = FirstTaskClock
    /\ taskCall = NoTaskCall
    /\ taskIdeal = NoIdeal

NextTasks ==
    \/ loadTasksResolved
    \/ loadTasksRejected
    \/ \E name \in AddNames : addTask(name)
    \/ \E id \in TaskIds : toggleComplete(id)
    \/ \E id \in TaskIds : moveTaskUp(id)
    \/ \E id \in TaskIds : moveTaskDown(id)
    \/ \E id \in TaskIds : startEditTask(id)
    \/ \E name \in EditNames : saveTaskEdit(name)
    \/ \E id \in TaskIds : deleteTask(id)
    \/ deleteTaskConfirmed
    \/ taskDialogCancel
    \/ saveTasksResolved
    \/ saveTasksRejected

SpecTasks == InitTasks /\ [][NextTasks]_vars

-----------------------------------------------------------------------------
(* The goal functions, part_001: getWeeksBetweenDates (21-41),
   calculateProgress (172-184), isWeekComplete (186-190) and
   calculateGoalProgress (582-595) *)

\* date.toISOString().split('T')[0] of a valid Date of the years 0 .. 9999
toISODate(date) == CivilFromDays(date.day)

\* part_001:28-29 if the week ended on the day the next one starts
weekEndDate_SevenDays(currentWeekStart) == AddUTCDays(currentWeekStart, 7)

\* part_001:28-29
weekEndDate(currentWeekStart) == AddUTCDays(currentWeekStart, 6)

\* part_001:27-39: the weeks the loop adds from currentWeekStart on, in
\* the order of their keys week_i
RECURSIVE weeksFrom(_, _)
weeksFrom(currentWeekStart, endDate) ==
    IF ~DateGE(endDate, currentWeekStart)
    THEN << >>
    ELSE LET actualEndDate == IF DateGT(weekEndDate(currentWeekStart), endDate)
                              THEN endDate
                              ELSE weekEndDate(currentWeekStart)
         IN  <<Week(toISODate(currentWeekStart), toISODate(actualEndDate), TaskArray(<< >>))>>
             \o weeksFrom(AddUTCDays(currentWeekStart, 7), endDate)

\* part_001:21-41
getWeeksBetweenDates(startDateStr, endDateStr) ==
    WeeksObject(weeksFrom(ParseDate(startDateStr), ParseDate(endDateStr)))

\* week.tasks.every(task => task.completed)
allCompleted(week) ==
    \A i \in 1..Len(week.tasks.list) : week.tasks.list[i].completed

\* part_001:178-181: the week adds one to completedWeeks
countsInDetail(week) ==
    /\ week.tasks.kind = "array"
    /\ Len(week.tasks.list) > 0
    /\ allCompleted(week)

\* part_001:172-184: calculateProgress() when the state goal is g
calculateProgress(g) ==
    IF g = NullGoal \/ g.weeks.kind = "missing"
    THEN Zero
    ELSE LET weekValues == g.weeks.list
             completedWeeks ==
                 Cardinality({i \in 1..Len(weekValues) : countsInDetail(weekValues[i])})
         IN  IF Len(weekValues) = 0 THEN Zero ELSE Ratio(completedWeeks, Len(weekValues))

\* part_001:186-190, weekKey being the key week_(i - 1)
isWeekComplete(g, i) ==
    IF \/ g = NullGoal
       \/ g.weeks.kind = "missing"
       \/ i \notin 1..Len(g.weeks.list)
    THEN FALSE
    ELSE LET week == g.weeks.list[i]
         IN  /\ week.tasks.kind = "array"
             /\ Len(week.tasks.list) > 0
             /\ allCompleted(week)

\* part_001:588-591 if a week with an empty task list counted as completed
countsInList_EmptyCounts(week) ==
    /\ week.tasks.kind = "array"
    /\ allCompleted(week)

\* part_001:588-591: the week adds one to completedWeeks
countsInList(week) ==
    /\ week.tasks.kind = "array"
    /\ Len(week.tasks.list) > 0
    /\ allCompleted(week)

\* part_001:582-595
calculateGoalProgress(g) ==
    IF g = NullGoal \/ g.weeks.kind = "missing"
    THEN Zero
    ELSE LET weekValues == g.weeks.list
             completedWeeks ==
                 Cardinality({i \in 1..Len(weekValues) : countsInList(weekValues[i])})
         IN  IF Len(weekValues) = 0 THEN Zero ELSE Ratio(completedWeeks, Len(weekValues))

\* a number as the value of a progress field
Progress(r) == [set |-> TRUE, val |-> r]

-----------------------------------------------------------------------------
(* The progress functions alone, applied to one goal *)

\* the task lists of a week: none, empty, all completed, some not completed
WeekTasks ==
    {NoTasks, TaskArray(<< >>),
     TaskArray(<<GoalTask(TRUE)>>), TaskArray(<<GoalTask(FALSE)>>),
     TaskArray(<<GoalTask(TRUE), GoalTask(TRUE)>>),
     TaskArray(<<GoalTask(TRUE), GoalTask(FALSE)>>)}

WeekLists(n) ==
    UNION {[1..k -> {Week(NoDate, NoDate, t) : t \in WeekTasks}] : k \in 0..n}

CalcGoals ==
    {NullGoal, Goal(1, NoDate, NoDate, NoWeeks, NoProgress)}
    \cup {Goal(1, NoDate, NoDate, WeeksObject(w), NoProgress) : w \in WeekLists(MaxWeeks)}

InitProgress ==
    /\ now \in ScreenNows
    /\ platform = "android"
    /\ storage = NoItem
    /\ StreaksIdle
    /\ TasksIdle
    /\ GoalsIdle
    /\ calcGoal \in CalcGoals
    /\ calcList = NoProgress
    /\ calcDetail = NoProgress
    /\ weeksArgs = <<NoDate, NoDate>>
    /\ weeksOut = NoWeeks

\* the list screen and the detail screen compute the progress of calcGoal
Calculate ==
    /\ ~calcList.set
    /\ calcList' = Progress(calculateGoalProgress(calcGoal))
    /\ calcDetail' = Progress(calculateProgress(calcGoal))
    /\ UNCHANGED <<beyondCalc, calcGoal, weeksArgs, weeksOut>>

NextProgress == Calculate

SpecProgress == InitProgress /\ [][NextProgress]_vars

-----------------------------------------------------------------------------
(* getWeeksBetweenDates alone, applied to a start and an end date *)

\* start dates before the end of February of a leap year, before the end
\* of a year, and on a Sunday
WeekStarts == {<<2024, 2, 26>>, <<2024, 12, 30>>, <<2025, 3, 30>>}

WeekArgs ==
    {<<start, toISODate(AddUTCDays(ParseDate(start), k))>> :
        start \in WeekStarts, k \in -2..MaxSpan}

InitWeeks ==
    /\ now \in ScreenNows
    /\ platform = "android"
    /\ storage = NoItem
    /\ StreaksIdle
    /\ TasksIdle
    /\ GoalsIdle
    /\ calcGoal = NullGoal
    /\ calcList = NoProgress
    /\ calcDetail = NoProgress
    /\ weeksArgs \in WeekArgs
    /\ weeksOut = NoWeeks

GetWeeks ==
    /\ weeksOut = NoWeeks
    /\ weeksOut' = getWeeksBetweenDates(weeksArgs[1], weeksArgs[2])
    /\ UNCHANGED <<beyondCalc, calcGoal, calcList, calcDetail, weeksArgs>>

NextWeeks == GetWeeks

SpecWeeks == InitWeeks /\ [][NextWeeks]_vars

-----------------------------------------------------------------------------
(* The goal list screen, part_001:502-728 *)

\* the dates of the stored goals
GoalStart == <<2025, 3, 30>>
GoalEnd == <<2025, 4, 8>>

\* the weeks of GoalStart .. GoalEnd with the task lists given
WeeksWith(taskLists) ==
    LET w == getWeeksBetweenDates(GoalStart, GoalEnd).list
    IN  WeeksObject([i \in 1..Len(taskLists) |->
                        Week(w[i].startDate, w[i].endDate, taskLists[i])])

\* the weeks field of a stored goal: missing, empty, a week without a
\* tasks field, a completed week, a completed week and one with a task left
StoredWeeks ==
    {NoWeeks, WeeksObject(<< >>),
     WeeksWith(<<NoTasks>>),
     WeeksWith(<<TaskArray(<<GoalTask(TRUE)>>)>>),
     WeeksWith(<<TaskArray(<<GoalTask(TRUE)>>), TaskArray(<<GoalTask(FALSE)>>)>>)}

StoredGoal(id, weeks) == Goal(id, GoalStart, GoalEnd, weeks, NoProgress)

StoredGoalLists ==
    {<< >>}
    \cup {<<StoredGoal(id, w)>> : id \in {1, 2}, w \in StoredWeeks}
    \cup {<<StoredGoal(1, w1), StoredGoal(2, w2)>> : w1 \in StoredWeeks, w2 \in StoredWeeks}

GoalsItems ==
    {NoGoalsItem, GoalsItem("malformed", << >>)}
    \cup {GoalsItem("array", l) : l \in StoredGoalLists}

\* a request of handler by about goal id; list is the argument of setItem
GoalsRequest(op, by, id, list) == [op |-> op, by |-> by, id |-> id, list |-> list]

\* part_001:535-538 and 512-515: parsedGoals.map(goal => ({...goal, progress}))
goalsWithProgress(parsedGoals) ==
    [i \in 1..Len(parsedGoals) |->
        [parsedGoals[i] EXCEPT !.progress = Progress(calculateGoalProgress(parsedGoals[i]))]]

\* part_001:527-553: the screen gains the focus and fetchGoals() starts
GoalsFocus ==
    /\ Len(goalsPending) < MaxPending
    /\ goalsPending' = Append(goalsPending, GoalsRequest("getItem", "fetchGoals", NoId, << >>))
    /\ goalsCall' = GoalsCall("GoalsFocus", NoId, "")
    /\ UNCHANGED <<beyondGoals, detailVars, goalsStorage, goals, goalsDialog>>

\* part_001:532-546: getItem of fetchGoals resolves
fetchGoalsResolved ==
    /\ goalsPending # << >>
    /\ Head(goalsPending).op = "getItem"
    /\ Head(goalsPending).by = "fetchGoals"
    /\ goals' = IF goalsStorage.kind = "array"
                THEN goalsWithProgress(goalsStorage.list)
                ELSE << >>
    /\ goalsPending' = Tail(goalsPending)
    /\ goalsCall' = GoalsCall("fetchGoalsResolved", NoId, "")
    /\ UNCHANGED <<beyondGoals, detailVars, goalsStorage, goalsDialog>>

\* part_001:543-546: getItem of fetchGoals rejects
fetchGoalsRejected ==
    /\ goalsPending # << >>
    /\ Head(goalsPending).op = "getItem"
    /\ Head(goalsPending).by = "fetchGoals"
    /\ goals' = << >>
    /\ goalsPending' = Tail(goalsPending)
    /\ goalsCall' = GoalsCall("fetchGoalsRejected", NoId, "")
    /\ UNCHANGED <<beyondGoals, detailVars, goalsStorage, goalsDialog>>

\* the ids of the goals of list
IdsOf(list) == {list[i].id : i \in 1..Len(list)}

\* part_001:556-560, 600: a long press on the item of goal id
handleDeleteGoal(id) ==
    /\ goalsDialog = NoId
    /\ id \in IdsOf(goals)
    /\ goalsDialog' = id
    /\ goalsCall' = GoalsCall("handleDeleteGoal", id, "")
    /\ UNCHANGED <<beyondGoals, detailVars, goalsStorage, goals, goalsPending>>

\* part_001:561: Cancel
deleteGoalCancel ==
    /\ goalsDialog # NoId
    /\ goalsDialog' = NoId
    /\ goalsCall' = GoalsCall("deleteGoalCancel", goalsDialog, "")
    /\ UNCHANGED <<beyondGoals, detailVars, goalsStorage, goals, goalsPending>>

\* part_001:562-567: Delete: the handler starts with getItem
deleteGoalPressed ==
    /\ goalsDialog # NoId
    /\ Len(goalsPending) < MaxPending
    /\ goalsPending' = Append(goalsPending,
                              GoalsRequest("getItem", "handleDeleteGoal", goalsDialog, << >>))
    /\ goalsDialog' = NoId
    /\ goalsCall' = GoalsCall("deleteGoalPressed", goalsDialog, "")
    /\ UNCHANGED <<beyondGoals, detailVars, goalsStorage, goals>>

\* goalsList.filter(goal => goal.id !== goalId)
RECURSIVE WithoutGoal(_, _)
WithoutGoal(goalsList, id) ==
    IF goalsList = << >>
    THEN << >>
    ELSE IF Head(goalsList).id # id
         THEN <<Head(goalsList)>> \o WithoutGoal(Tail(goalsList), id)
         ELSE WithoutGoal(Tail(goalsList), id)

\* part_001:567-573: getItem of the Delete handler resolves: the handler
\* goes on to setItem, or to the catch clause when the item is no JSON
deleteGoalRead ==
    /\ goalsPending # << >>
    /\ Head(goalsPending).op = "getItem"
    /\ Head(goalsPending).by = "handleDeleteGoal"
    /\ LET id == Head(goalsPending).id
           goalsList == IF goalsStorage.kind = "array" THEN goalsStorage.list ELSE << >>
           updatedGoals == WithoutGoal(goalsList, id)
       IN  IF goalsStorage.kind = "malformed"
           THEN /\ goalsPending' = Tail(goalsPending)
                /\ goalsCall' = GoalsCall("deleteGoalRead", id, "Error")
           ELSE /\ goalsPending' = Append(Tail(goalsPending),
                                       GoalsRequest("setItem", "handleDeleteGoal", id, updatedGoals))
                /\ goalsCall' = GoalsCall("deleteGoalRead", id, "")
    /\ UNCHANGED <<beyondGoals, detailVars, goalsStorage, goals, goalsDialog>>

\* part_001:570-571: setItem of the Delete handler resolves
deleteGoalWritten ==
    /\ goalsPending # << >>
    /\ Head(goalsPending).op = "setItem"
    /\ goalsStorage' = GoalsItem("array", Head(goalsPending).list)
    /\ goals' = Head(goalsPending).list
    /\ goalsPending' = Tail(goalsPending)
    /\ goalsCall' = GoalsCall("deleteGoalWritten", Head(goalsPending).id, "")
    /\ UNCHANGED <<beyondGoals, detailVars, goalsDialog>>

\* part_001:572-574: getItem or setItem of the Delete handler rejects
deleteGoalRejected ==
    /\ goalsPending # << >>
    /\ Head(goalsPending).by = "handleDeleteGoal"
    /\ goalsPending' = Tail(goalsPending)
    /\ goalsCall' = GoalsCall("deleteGoalRejected", Head(goalsPending).id, "Error")
    /\ UNCHANGED <<beyondGoals, detailVars, goalsStorage, goals, goalsDialog>>

\* part_001:609, 620: item.progress || 0
shownProgress(item) == IF item.progress.set THEN item.progress.val ELSE Zero

InitGoals ==
    /\ now \in ScreenNows
    /\ platform = "android"
    /\ storage = NoItem
    /\ StreaksIdle
    /\ TasksIdle
    /\ CalcIdle
    /\ DetailIdle
    /\ goalsStorage \in GoalsItems
    /\ goals = << >>
    /\ goalsPending = <<GoalsRequest("getItem", "fetchGoals", NoId, << >>)>>
    /\ goalsDialog = NoId
    /\ goalsCall = NoGoalsCall

NextGoals ==
    \/ GoalsFocus
    \/ fetchGoalsResolved
    \/ fetchGoalsRejected
    \/ \E id \in {1, 2} : handleDeleteGoal(id)
    \/ deleteGoalCancel
    \/ deleteGoalPressed
    \/ deleteGoalRead
    \/ deleteGoalWritten
    \/ deleteGoalRejected

SpecGoals == InitGoals /\ [][NextGoals]_vars

-----------------------------------------------------------------------------
(* The goal detail screen, part_001:44-304.  A request of the focus effect
   carries active, the isActive flag of the effect that started it.  The
   handlers copy the goal object one level deep ({ ...goal }) and change
   its weeks in place, so every copy made since a load shares the weeks of
   the object that load produced: gen names that object (0: no object),
   and a change made through one copy shows in every copy of the same gen. *)

DetailItems ==
    {NoGoalsItem, GoalsItem("malformed", << >>)}
    \cup {GoalsItem("array", <<StoredGoal(1, w)>>) : w \in StoredWeeks}

\* the goalId of the route: none, the id of a stored goal, another id
DetailIds == {NoId, 1, 2}

\* the texts of the task input of a week
TaskTexts == {"", " ", "t"}

\* text.trim() (part_001:131)
trim(text) == IF text = " " THEN "" ELSE text

\* a request of fetchGoalDetails or saveGoalUpdates (by): list is the
\* argument of setItem, goal the object the function goes on with
DetailRequest(op, by, active, list, g, gen) ==
    [op |-> op, by |-> by, active |-> active, list |-> list, goal |-> g, gen |-> gen]

NoDetailDialog == [kind |-> "none", week |-> 0, task |-> 0, closure |-> NullGoal, gen |-> 0]

\* a gen that names no object held by the state or by a request in flight
FreshGen ==
    LET used == {goalGen} \cup {detailPending[i].gen : i \in 1..Len(detailPending)}
    IN  CHOOSE n \in 1..(Len(detailPending) + 2) :
            /\ n \notin used
            /\ \A m \in 1..(n - 1) : m \in used

\* isActive = false in every effect started so far
Deactivated(q) == [i \in 1..Len(q) |-> [q[i] EXCEPT !.active = FALSE]]

\* goals.findIndex(g => g.id === goalId), 0 for -1
findGoalIndex(list, id) ==
    IF \E i \in 1..Len(list) : list[i].id = id
    THEN CHOOSE i \in 1..Len(list) :
            /\ list[i].id = id
            /\ \A j \in 1..(i - 1) : list[j].id # id
    ELSE 0

\* part_001:73: !weeks || typeof weeks !== 'object' || no keys
needsSave(currentGoal) ==
    currentGoal.weeks.kind = "missing" \/ currentGoal.weeks.list = << >>

\* part_001:80-84: every week gets a tasks array
withTaskArrays(weeks) ==
    WeeksObject([i \in 1..Len(weeks.list) |->
        IF weeks.list[i].tasks.kind = "missing"
        THEN [weeks.list[i] EXCEPT !.tasks = TaskArray(<< >>)]
        ELSE weeks.list[i]])

\* part_001:73-85: currentGoal after the weeks have been set up
preparedGoal(currentGoal) ==
    IF needsSave(currentGoal)
    THEN [currentGoal EXCEPT !.weeks = getWeeksBetweenDates(currentGoal.startDate,
                                                            currentGoal.endDate)]
    ELSE [currentGoal EXCEPT !.weeks = withTaskArrays(currentGoal.weeks)]

\* the end of fetchGoalDetails in an effect whose flag is active, with the
\* request at the head of the queue settled and rest the requests that
\* remain: setGoal(found) when a goal was found (part_001:90),
\* router.back() when back and the router can go back (part_001:94, 98,
\* 103), then the finally clause (part_001:105).  Going back removes the
\* focused screen: its effect is cleaned up and its state is dropped, the
\* next focus being that of a new mount.
fetchEnds(active, found, back, rest) ==
    IF back /\ canGoBack /\ detailFocused
    THEN /\ detailFocused' = FALSE
         /\ goal' = NullGoal
         /\ goalGen' = 0
         /\ loading' = TRUE
         /\ detailPending' = Deactivated(rest)
    ELSE /\ detailFocused' = detailFocused
         /\ goal' = IF active /\ found # NullGoal THEN found ELSE goal
         /\ goalGen' = IF active /\ found # NullGoal THEN FreshGen ELSE goalGen
         /\ loading' = IF active THEN FALSE ELSE loading
         /\ detailPending' = rest

\* part_001:58-62: fetchGoalDetails without a goalId
missingGoalId ==
    /\ goalId = NoId
    /\ detailCall' = GoalsCall("DetailFocus", goalId, "Goal ID is missing.")
    /\ detailFocused' = ~canGoBack
    /\ UNCHANGED <<goal, goalGen, loading, detailPending>>

\* part_001:53-112: the screen gains the focus: the effect runs and calls
\* fetchGoalDetails(), which goes as far as its first await
DetailFocus ==
    /\ ~detailFocused
    /\ detailDialog.kind = "none"
    /\ Len(detailPending) < MaxPending
    /\ \/ missingGoalId
       \/ /\ goalId # NoId
          /\ detailFocused' = TRUE
          /\ loading' = TRUE
          /\ detailPending' = Append(detailPending,
                 DetailRequest("getItem", "fetchGoalDetails", TRUE, << >>, NullGoal, 0))
          /\ detailCall' = GoalsCall("DetailFocus", goalId, "")
          /\ UNCHANGED <<goal, goalGen>>
    /\ UNCHANGED <<beyondGoals, listVars, goalsStorage, goalId, canGoBack, detailDialog>>

\* part_001:111-113: the screen loses the focus and stays mounted
DetailBlur ==
    /\ detailFocused
    /\ detailDialog.kind = "none"
    /\ detailFocused' = FALSE
    /\ detailPending' = Deactivated(detailPending)
    /\ detailCall' = GoalsCall("DetailBlur", goalId, "")
    /\ UNCHANGED <<beyondGoals, listVars, goalsStorage, goalId, canGoBack, goal, goalGen,
                   loading, detailDialog>>

\* part_001:65-106: getItem of fetchGoalDetails resolves
fetchGoalDetailsRead ==
    /\ detailPending # << >>
    /\ Head(detailPending).op = "getItem"
    /\ Head(detailPending).by = "fetchGoalDetails"
    /\ LET active == Head(detailPending).active
           rest   == Tail(detailPending)
           list   == goalsStorage.list
           goalIndex == findGoalIndex(list, goalId)
       IN  CASE goalsStorage.kind = "absent" ->
                  /\ detailCall' = GoalsCall("fetchGoalDetailsRead", goalId, "No goals found.")
                  /\ fetchEnds(active, NullGoal, TRUE, rest)
             [] goalsStorage.kind = "malformed" ->
                  /\ detailCall' = GoalsCall("fetchGoalDetailsRead", goalId, "Failed load.")
                  /\ fetchEnds(active, NullGoal, TRUE, rest)
             [] goalsStorage.kind = "array" /\ goalIndex = 0 ->
                  /\ detailCall' = GoalsCall("fetchGoalDetailsRead", goalId, "Goal not found.")
                  /\ fetchEnds(active, NullGoal, TRUE, rest)
             [] goalsStorage.kind = "array" /\ goalIndex # 0 /\ needsSave(list[goalIndex]) ->
                  /\ detailCall' = GoalsCall("fetchGoalDetailsRead", goalId, "")
                  /\ detailPending' =
                        Append(rest, DetailRequest("setItem", "fetchGoalDetails", active,
                            [list EXCEPT ![goalIndex] = preparedGoal(list[goalIndex])],
                            preparedGoal(list[goalIndex]), 0))
                  /\ UNCHANGED <<detailFocused, goal, goalGen, loading>>
             [] OTHER ->
                  /\ detailCall' = GoalsCall("fetchGoalDetailsRead", goalId, "")
                  /\ fetchEnds(active, preparedGoal(list[goalIndex]), FALSE, rest)
    /\ UNCHANGED <<beyondGoals, listVars, goalsStorage, goalId, canGoBack, detailDialog>>

\* part_001:86-90, 105: setItem of fetchGoalDetails resolves
fetchGoalDetailsWritten ==
    /\ detailPending # << >>
    /\ Head(detailPending).op = "setItem"
    /\ Head(detailPending).by = "fetchGoalDetails"
    /\ goalsStorage' = GoalsItem("array", Head(detailPending).list)
    /\ detailCall' = GoalsCall("fetchGoalDetailsWritten", goalId, "")
    /\ fetchEnds(Head(detailPending).active, Head(detailPending).goal, FALSE,
                 Tail(detailPending))
    /\ UNCHANGED <<beyondGoals, listVars, goalId, canGoBack, detailDialog>>

\* part_001:100-106: getItem or setItem of fetchGoalDetails rejects
fetchGoalDetailsRejected ==
    /\ detailPending # << >>
    /\ Head(detailPending).by = "fetchGoalDetails"
    /\ detailCall' = GoalsCall("fetchGoalDetailsRejected", goalId, "Failed load.")
    /\ fetchEnds(Head(detailPending).active, NullGoal, TRUE, Tail(detailPending))
    /\ UNCHANGED <<beyondGoals, listVars, goalsStorage, goalId, canGoBack, detailDialog>>

\* the goal is rendered and nothing covers it (part_001:192-200)
GoalShown ==
    /\ detailFocused
    /\ ~loading
    /\ goal # NullGoal
    /\ detailDialog.kind = "none"

\* the weeks rendered and the tasks rendered in week w (part_001:235, 261)
WeeksShown == 1..Len(goal.weeks.list)

TasksShown(w) == 1..Len(goal.weeks.list[w].tasks.list)

\* the objects of gen in the requests q after a change of the weeks they
\* share: each is the object updatedGoal now
Shared(q, gen, updatedGoal) ==
    [i \in 1..Len(q) |->
        IF q[i].by = "saveGoalUpdates" /\ q[i].op = "getItem" /\ q[i].gen = gen
        THEN [q[i] EXCEPT !.goal = updatedGoal]
        ELSE q[i]]

\* setGoal(updatedGoal); saveGoalUpdates(updatedGoal), as far as its await
\* (part_001:117-119), updatedGoal being a copy of the object gen whose
\* weeks the handler has changed
setAndSave(updatedGoal, gen) ==
    /\ Len(detailPending) < MaxPending
    /\ goal' = updatedGoal
    /\ goalGen' = gen
    /\ detailPending' =
          Append(Shared(detailPending, gen, updatedGoal),
                 DetailRequest("getItem", "saveGoalUpdates", FALSE, << >>, updatedGoal, gen))

\* part_001:158-167: a press on task t of week w
handleToggleTask(w, t) ==
    /\ GoalShown
    /\ w \in WeeksShown
    /\ t \in TasksShown(w)
    /\ setAndSave([goal EXCEPT !.weeks.list[w].tasks.list[t].completed = ~@], goalGen)
    /\ detailCall' = GoalsCall("handleToggleTask", goalId, "")
    /\ UNCHANGED <<beyondGoals, listVars, goalsStorage, goalId, canGoBack, detailFocused,
                   loading, detailDialog>>

\* part_001:130-144: '+' of week w with text in its input
handleAddTask(w, text) ==
    /\ GoalShown
    /\ w \in WeeksShown
    /\ IF trim(text) = ""
       THEN /\ detailCall' = GoalsCall("handleAddTask", goalId, "Input Needed")
            /\ UNCHANGED <<goal, goalGen, detailPending>>
       ELSE /\ Len(goal.weeks.list[w].tasks.list) < MaxWeekTasks
            /\ detailCall' = GoalsCall("handleAddTask", goalId, "")
            /\ setAndSave([goal EXCEPT !.weeks.list[w].tasks =
                              TaskArray(Append(IF @.kind = "missing" THEN << >> ELSE @.list,
                                               GoalTask(FALSE)))], goalGen)
    /\ UNCHANGED <<beyondGoals, listVars, goalsStorage, goalId, canGoBack, detailFocused,
                   loading, detailDialog>>

\* part_001:146-147: a press on the delete icon of task t of week w: the
\* alert opens; its Delete button keeps the goal of the render
handleDeleteTask(w, t) ==
    /\ GoalShown
    /\ w \in WeeksShown
    /\ t \in TasksShown(w)
    /\ detailDialog' = [kind |-> "delete", week |-> w, task |-> t, closure |-> goal,
                        gen |-> goalGen]
    /\ detailCall' = GoalsCall("handleDeleteTask", goalId, "Delete Task")
    /\ UNCHANGED <<beyondGoals, listVars, goalsStorage, goalId, canGoBack, detailFocused,
                   goal, goalGen, loading, detailPending>>

\* list without its element t
WithoutAt(list, t) ==
    [i \in 1..(Len(list) - 1) |-> IF i < t THEN list[i] ELSE list[i + 1]]

\* part_001:149-154: Delete in the alert
deleteTaskPressed ==
    /\ detailDialog.kind = "delete"
    /\ setAndSave([detailDialog.closure EXCEPT
                      !.weeks.list[detailDialog.week].tasks =
                          TaskArray(WithoutAt(@.list, detailDialog.task))],
                  detailDialog.gen)
    /\ detailDialog' = NoDetailDialog
    /\ detailCall' = GoalsCall("deleteTaskPressed", goalId, "")
    /\ UNCHANGED <<beyondGoals, listVars, goalsStorage, goalId, canGoBack, detailFocused,
                   loading>>

\* part_001:148: Cancel in the alert
deleteTaskCancel ==
    /\ detailDialog.kind = "delete"
    /\ detailDialog' = NoDetailDialog
    /\ detailCall' = GoalsCall("deleteTaskCancel", goalId, "")
    /\ UNCHANGED <<beyondGoals, listVars, goalsStorage, goalId, canGoBack, detailFocused,
                   goal, goalGen, loading, detailPending>>

\* part_001:119-126: getItem of saveGoalUpdates resolves
saveGoalUpdatesRead ==
    /\ detailPending # << >>
    /\ Head(detailPending).op = "getItem"
    /\ Head(detailPending).by = "saveGoalUpdates"
    /\ LET updatedGoal == Head(detailPending).goal
           list        == goalsStorage.list
           goalIndex   == findGoalIndex(list, updatedGoal.id)
       IN  CASE goalsStorage.kind = "malformed" ->
                  /\ detailCall' = GoalsCall("saveGoalUpdatesRead", goalId,
                                             "Failed to save updates.")
                  /\ detailPending' = Tail(detailPending)
             [] goalsStorage.kind # "malformed" /\ goalIndex = 0 ->
                  /\ detailCall' = GoalsCall("saveGoalUpdatesRead", goalId,
                                             "Save failed: Goal not found.")
                  /\ detailPending' = Tail(detailPending)
             [] OTHER ->
                  /\ detailCall' = GoalsCall("saveGoalUpdatesRead", goalId, "")
                  /\ detailPending' =
                        Append(Tail(detailPending),
                               DetailRequest("setItem", "saveGoalUpdates", FALSE,
                                   [list EXCEPT ![goalIndex] = updatedGoal], NullGoal, 0))
    /\ UNCHANGED <<beyondGoals, listVars, goalsStorage, goalId, canGoBack, detailFocused,
                   goal, goalGen, loading, detailDialog>>

\* part_001:124: setItem of saveGoalUpdates resolves
saveGoalUpdatesWritten ==
    /\ detailPending # << >>
    /\ Head(detailPending).op = "setItem"
    /\ Head(detailPending).by = "saveGoalUpdates"
    /\ goalsStorage' = GoalsItem("array", Head(detailPending).list)
    /\ detailPending' = Tail(detailPending)
    /\ detailCall' = GoalsCall("saveGoalUpdatesWritten", goalId, "")
    /\ UNCHANGED <<beyondGoals, listVars, goalId, canGoBack, detailFocused, goal, goalGen,
                   loading, detailDialog>>

\* part_001:126: getItem or setItem of saveGoalUpdates rejects
saveGoalUpdatesRejected ==
    /\ detailPending # << >>
    /\ Head(detailPending).by = "saveGoalUpdates"
    /\ detailPending' = Tail(detailPending)
    /\ detailCall' = GoalsCall("saveGoalUpdatesRejected", goalId, "Failed to save updates.")
    /\ UNCHANGED <<beyondGoals, listVars, goalsStorage, goalId, canGoBack, detailFocused,
                   goal, goalGen, loading, detailDialog>>

\* the request at the head of the queue settles
DetailSettles ==
    \/ fetchGoalDetailsRead
    \/ fetchGoalDetailsWritten
    \/ fetchGoalDetailsRejected
    \/ saveGoalUpdatesRead
    \/ saveGoalUpdatesWritten
    \/ saveGoalUpdatesRejected

InitDetail ==
    /\ now \in ScreenNows
    /\ platform = "android"
    /\ storage = NoItem
    /\ StreaksIdle
    /\ TasksIdle
    /\ CalcIdle
    /\ ListIdle
    /\ goalsStorage \in DetailItems
    /\ goalId \in DetailIds
    /\ canGoBack \in BOOLEAN
    /\ detailFocused = FALSE
    /\ goal = NullGoal
    /\ goalGen = 0
    /\ loading = TRUE
    /\ detailPending = << >>
    /\ detailDialog = NoDetailDialog
    /\ detailCall = NoGoalsCall

NextDetail ==
    \/ DetailFocus
    \/ DetailBlur
    \/ fetchGoalDetailsRead
    \/ fetchGoalDetailsWritten
    \/ fetchGoalDetailsRejected
    \/ \E w \in WeeksShown : \E t \in TasksShown(w) : handleToggleTask(w, t)
    \/ \E w \in WeeksShown, text \in TaskTexts : handleAddTask(w, text)
    \/ \E w \in WeeksShown : \E t \in TasksShown(w) : handleDeleteTask(w, t)
    \/ deleteTaskPressed
    \/ deleteTaskCancel
    \/ saveGoalUpdatesRead
    \/ saveGoalUpdatesWritten
    \/ saveGoalUpdatesRejected

SpecDetail == InitDetail /\ [][NextDetail]_vars

\* every request to AsyncStorage settles
SpecDetailFair == SpecDetail /\ WF_vars(DetailSettles)

-----------------------------------------------------------------------------
(* Notions the claims are stated in *)

\* processDataAndUpdateState has been applied
Processed == loaded

Today == now.day

\* the UTC days holding a numeric amount greater than 0 in record r
PositiveDays(r) ==
    {ParseDate(k).day : k \in {k \in DOMAIN r : r[k].type = "number" /\ r[k].val > 0}}

\* the number of consecutive days of S that end on day d
RECURSIVE RunEndingAt(_, _)
RunEndingAt(S, d) == IF d \in S THEN 1 + RunEndingAt(S, d - 1) ELSE 0

LongestRun(S) == IF S = {} THEN 0 ELSE Max({RunEndingAt(S, d) : d \in S})

FinalRun(S) == IF S = {} THEN 0 ELSE RunEndingAt(S, Max(S))

\* the calendar day six months before today
CutoffDay == cutoffDate(now).day

\* the key k is a calendar date on or after day n
OnOrAfter(k, n) == ParseDate(k) # InvalidDate /\ ParseDate(k).day >= n

\* the entries of r with a numeric value
NumericKeys(r) == {k \in DOMAIN r : r[k].type = "number"}

\* the key a is the key b or comes before it
KeyLeq(a, b) ==
    \/ a[1] < b[1]
    \/ a[1] = b[1] /\ a[2] < b[2]
    \/ a[1] = b[1] /\ a[2] = b[2] /\ a[3] <= b[3]

\* the sum of the first n numeric values of r in the order of their keys,
\* in half hours
RECURSIVE SumValues(_, _)
SumValues(r, n) ==
    IF n = 0 THEN 0
    ELSE LET K == NumericKeys(r)
             k == CHOOSE k \in K : Cardinality({j \in K : KeyLeq(j, k)}) = n
         IN  r[k].val + SumValues(r, n - 1)

-----------------------------------------------------------------------------
(* Claims C1 .. C10 *)

\* C1 (as stated): currentStreak is the length of the final run of
\* consecutive positive-amount days when the most recent positive-amount
\* date is today or yesterday, and 0 in every other case.
C1_CurrentStreakTodayOrYesterday ==
    Processed =>
        LET S == PositiveDays(heatmapData)
        IN  currentStreak =
                IF S # {} /\ Max(S) \in {Today, Today - 1} THEN FinalRun(S) ELSE 0

\* C2: longestStreak is the length of the longest run of consecutive UTC
\* days that all have a positive amount in the retained record, recent or not.
C2_LongestStreakIsLongestRun ==
    Processed =>
        /\ heatmapData = cleanedHeatmapData(storage.data, now)
        /\ longestStreak = LongestRun(PositiveDays(heatmapData))

\* C2 witness: the longest run has two days and is not the final run.
C2_Witness ==
    /\ Processed
    /\ longestStreak = 2
    /\ FinalRun(PositiveDays(heatmapData)) = 1
    /\ Cardinality(PositiveDays(heatmapData)) = 3

\* C3: a record without any numeric amount greater than 0 (the empty record
\* and records of zeros included) yields currentStreak = 0 and longestStreak = 0.
C3_NoPositiveNoStreak ==
    (Processed /\ \A k \in DOMAIN storage.data :
                      ~(storage.data[k].type = "number" /\ storage.data[k].val > 0))
        => (currentStreak = 0 /\ longestStreak = 0)

\* C3 witness: a processed record that retains a zero for today and holds
\* no positive amount.
C3_Witness ==
    /\ Processed
    /\ DayKey(Today) \in DOMAIN heatmapData
    /\ heatmapData[DayKey(Today)] = Num(0)
    /\ PositiveDays(storage.data) = {}
    /\ currentStreak = 0
    /\ longestStreak = 0

\* C4: when the positive-amount days are exactly k >= 1 consecutive days
\* ending today or yesterday, currentStreak = longestStreak = k.
C4_RecentRunIsBothStreaks ==
    Processed =>
        LET S == PositiveDays(heatmapData)
            k == Cardinality(S)
        IN  (/\ k >= 1
             /\ Max(S) \in {Today, Today - 1}
             /\ S = (Max(S) - k + 1)..Max(S))
            => (currentStreak = k /\ longestStreak = k)

\* C4 witness: exactly two positive days, the day before yesterday and
\* yesterday (the spec's 2024-01-01, 2024-01-02 seen on 2024-01-03).
C4_Witness ==
    /\ Processed
    /\ now.day = DaysFromCivil(2024, 1, 3)
    /\ PositiveDays(heatmapData) = {DaysFromCivil(2024, 1, 1), DaysFromCivil(2024, 1, 2)}
    /\ currentStreak = 2
    /\ longestStreak = 2

\* C5 (as stated): positive amounts on day N and day N-2 only give
\* longestStreak = 1, and currentStreak = 0 whenever N is neither today nor
\* yesterday.
C5_GapOfOneDay ==
    Processed =>
        LET S == PositiveDays(heatmapData)
        IN  \A N \in S :
                S = {N, N - 2}
                => /\ longestStreak = 1
                   /\ (N \notin {Today, Today - 1} => currentStreak = 0)

\* the stored item holds no entry older than the retention window
NoStaleEntry(item) ==
    item.kind = "object" => \A k \in DOMAIN item.data : OnOrAfter(k, CutoffDay)

\* a load completes in this step
LoadCompletes ==
    /\ pending # << >>
    /\ Head(pending).op = "getItem"
    /\ pending' = Tail(pending)

\* C6 (as stated): when a load completes, the persisted record contains no
\* entry older than the six-month retention window.
C6_LoadPrunesPersistedRecord ==
    [][LoadCompletes => NoStaleEntry(storage')]_vars

\* C7 (as stated): pruning keeps an entry if and only if its date is on or
\* after the calendar day (today - 6 months), and every kept entry keeps
\* its value.
C7_PruneKeepsOnOrAfterCutoffDay ==
    Processed =>
        \A k \in DOMAIN storage.data :
            /\ (k \in DOMAIN heatmapData) <=> OnOrAfter(k, CutoffDay)
            /\ (k \in DOMAIN heatmapData) => heatmapData[k] = storage.data[k]

\* C8: with today fixed, pruning is idempotent: pruning the pruned record
\* again yields the pruned record.
C8_PruneIdempotent ==
    Processed =>
        /\ heatmapData = cleanedHeatmapData(storage.data, now)
        /\ cleanedHeatmapData(heatmapData, now) = heatmapData

\* C8 witness: a pruning that removed one entry and kept two.
C8_Witness ==
    /\ Processed
    /\ Cardinality(DOMAIN storage.data) = 3
    /\ Cardinality(DOMAIN heatmapData) = 2
    /\ cleanedHeatmapData(heatmapData, now) = heatmapData

\* the entries of r whose value is a number and not negative
WellFormed(r) ==
    Restrict(r, {k \in DOMAIN r : r[k].type = "number" /\ r[k].val >= 0})

\* C9 (as stated): a stored value that is non-numeric or negative is treated
\* as absent: the derived outputs are those of the record without it.
C9_MalformedTreatedAsAbsent ==
    Processed =>
        LET r == cleanedHeatmapData(WellFormed(storage.data), now)
        IN  /\ currentStreak = newCurrentStreak(r, now)
            /\ longestStreak = newLongestStreak(r)
            /\ totalHours = sumHours(r)
            /\ averageHours = newAverageHours(r)
            /\ consistencyScore = calculateConsistencyScore(r, now)

\* C10: totalAmount is the sum of all numeric values (zeros included),
\* averageAmount is totalAmount / (number of entries with a numeric value),
\* and both are 0 for a record without entries.
C10_TotalAndAverage ==
    Processed =>
        LET n == Cardinality(NumericKeys(heatmapData))
        IN  /\ totalHours = SumValues(heatmapData, n)
            /\ n > 0 => /\ averageHours.num * 2 * n = totalHours * averageHours.den
                        /\ averageHours.den > 0
            /\ n = 0 => averageHours = Zero
            /\ DOMAIN heatmapData = {} => (totalHours = 0 /\ averageHours = Zero)

\* C10 witness: 2 h today and an explicit 0 yesterday: total 2 h, average 1 h.
C10_Witness ==
    /\ Processed
    /\ DOMAIN heatmapData = {DayKey(Today), DayKey(Today - 1)}
    /\ heatmapData[DayKey(Today)] = Num(4)
    /\ heatmapData[DayKey(Today - 1)] = Num(0)
    /\ totalHours = 4
    /\ averageHours = Ratio(1, 1)

-----------------------------------------------------------------------------
(* Claims C11 .. C20 *)

\* C11 (as stated): the consistency ratio is (number of the 30 UTC days
\* today, today-1, .., today-29 with a positive amount in the record) / 30,
\* and lies within [0, 1].
C11_ConsistencyRatio ==
    Processed =>
        LET n == Cardinality({i \in 0..(CONSISTENCY_DAYS - 1) :
                                 (Today - i) \in PositiveDays(heatmapData)})
        IN  /\ consistencyScore = Ratio(n, CONSISTENCY_DAYS)
            /\ 0 <= consistencyScore.num
            /\ consistencyScore.num <= consistencyScore.den

\* the grid the screen shows
Grid == generateHeatmapGridUIData(heatmapData, now)

GridPositions == (1..7) \X (1..NUM_WEEKS_TO_SHOW)

\* the cells of grid g, each with its position
CellsOf(g) == {<<p, g[p[1]][p[2]]>> : p \in GridPositions}

\* C12: the heatmap grid has 7 rows of NUM_WEEKS_TO_SHOW cells, and no date
\* appears in more than one cell (the cells carry as many distinct dates as
\* there are cells).
C12_GridCellsAndDistinctDates ==
    LET g == Grid
    IN  /\ Len(g) = 7
        /\ \A row \in 1..7 : Len(g[row]) = NUM_WEEKS_TO_SHOW
        /\ Cardinality(CellsOf(g)) = 7 * NUM_WEEKS_TO_SHOW
        /\ Cardinality({c[2].date : c \in CellsOf(g)}) = Cardinality(CellsOf(g))

\* C12 witness: a grid that spans the leap day 2024-02-29 and shows a
\* recorded amount of 2 h.
C12_Witness ==
    LET cells == CellsOf(Grid)
    IN  /\ \E c \in cells : c[2].date = <<2024, 2, 29>>
        /\ \E c \in cells : c[2].hours = Num(4)

\* every key of record r is a date no later than today
NoKeyAfterToday(r) == \A k \in DOMAIN r : ParseDate(k).day <= Today

\* C13: a cell is flagged isFuture exactly when its date is strictly after
\* today (UTC); no hours edit is started or made for a date after today, so
\* no edit through the grid sets a key dated after today, in memory, in a
\* queued write or in storage.
C13_FutureCellsNeverEdited ==
    /\ \A c \in CellsOf(Grid) : c[2].isFuture <=> ParseDate(c[2].date).day > Today
    /\ dialog.kind \in {"prompt", "modal"} => ParseDate(dialog.date).day <= Today
    /\ call.fn \in {"PressCell", "saveHoursForDate"} => ParseDate(call.date).day <= Today
    /\ NoKeyAfterToday(heatmapData)
    /\ NoKeyAfterToday(storage.data)
    /\ \A i \in 1..Len(pending) :
           pending[i].op = "setItem" => NoKeyAfterToday(pending[i].item.data)

\* C13 witness: an edit through the grid has set today's amount while the
\* grid holds cells flagged isFuture.
C13_Witness ==
    /\ call.fn = "saveHoursForDate"
    /\ call.date = DayKey(Today)
    /\ DayKey(Today) \in DOMAIN heatmapData
    /\ \E c \in CellsOf(Grid) : c[2].isFuture

\* an edit is accepted in this step: saveHoursForDate queues a write
AcceptedEdit ==
    /\ call'.fn = "saveHoursForDate"
    /\ Len(pending') = Len(pending) + 1

\* the record the accepted edit hands to saveData
WrittenRecord == pending'[Len(pending')].item.data

\* the write at the head of the queue succeeds in this step
WriteSucceeds ==
    /\ pending # << >>
    /\ Head(pending).op = "setItem"
    /\ call'.fn = "SaveResolved"

\* C14 (as stated): an accepted edit (date, amount) writes the entire pruned
\* in-memory mapping, in which the edited date maps to the new amount and
\* every other retained date maps to the amount it had in memory before the
\* edit; when the write succeeds the stored document holds that mapping.
C14_EditWritesWholeRecord ==
    [][ /\ AcceptedEdit =>
            LET d == call'.date
            IN  /\ WrittenRecord = heatmapData'
                /\ d \in DOMAIN WrittenRecord
                /\ WrittenRecord[d] = Num(parseFloat(call'.text).tenths \div 5)
                /\ DOMAIN WrittenRecord \ {d} = DOMAIN heatmapData \ {d}
                /\ \A k \in DOMAIN heatmapData \ {d} : WrittenRecord[k] = heatmapData[k]
        /\ WriteSucceeds => storage' = Head(pending).item
      ]_vars

\* the text is no number, a negative number or no multiple of 0.5
NotHalfHours(text) ==
    LET v == parseFloat(text)
    IN  v.nan \/ v.tenths < 0 \/ v.tenths % 5 # 0

\* C15: an hours input that is non-numeric, negative or not a multiple of
\* 0.5 is rejected with a message and changes nothing (record, statistics,
\* storage, queued writes); every amount an edit writes is the amount
\* entered, a non-negative multiple of 0.5.
C15_InvalidInputRejected ==
    [][ call'.fn = "saveHoursForDate" =>
            /\ NotHalfHours(call'.text) =>
                   /\ alert' = "Invalid Input"
                   /\ UNCHANGED <<heatmapData, stats, storage, pending>>
            /\ AcceptedEdit =>
                   /\ ~NotHalfHours(call'.text)
                   /\ WrittenRecord[call'.date].type = "number"
                   /\ WrittenRecord[call'.date].val >= 0
                   /\ 5 * WrittenRecord[call'.date].val = parseFloat(call'.text).tenths
      ]_vars

\* C15 witness: 0.3 has been entered for a day while the record holds an
\* amount; the input was rejected with the message.
C15_Witness ==
    /\ call.fn = "saveHoursForDate"
    /\ call.text = "0.3"
    /\ alert = "Invalid Input"
    /\ DOMAIN heatmapData # {}

\* a load completes in this step whose read fails, or whose stored JSON is
\* malformed or lacks the heatmapData field
LoadFails ==
    /\ LoadCompletes
    /\ call'.fn = "LoadRejected" \/ storage.kind \in {"malformed", "nofield"}

\* C16: when the storage read fails, or the stored JSON is malformed or
\* lacks heatmapData, the load completes with an empty in-memory record,
\* all statistics 0 and isLoading false.
C16_FailedLoadGivesEmptyRecord ==
    [][ LoadFails =>
            /\ heatmapData' = EmptyRecord
            /\ currentStreak' = 0
            /\ longestStreak' = 0
            /\ totalHours' = 0
            /\ averageHours' = Zero
            /\ consistencyScore' = Zero
            /\ isLoading' = FALSE
      ]_vars

\* C16 witness: a read has just failed while storage holds an amount inside
\* the retention window; the record is empty and the screen no longer loads.
C16_Witness ==
    /\ call.fn = "LoadRejected"
    /\ DayKey(Today - 1) \in DOMAIN storage.data
    /\ heatmapData = EmptyRecord
    /\ totalHours = 0
    /\ ~isLoading

\* the write at the head of the queue fails in this step
WriteFails ==
    /\ pending # << >>
    /\ Head(pending).op = "setItem"
    /\ call'.fn = "SaveRejected"

\* C17: when the write of an accepted edit fails, an error notice is raised,
\* the in-memory record and statistics stay as they are, storage keeps its
\* contents and no request is queued again; storage changes only when a
\* queued write or removal completes, and requests are queued only by a
\* screen focus, an accepted edit or a confirmed clear.
C17_FailedWriteNotRetried ==
    [][ /\ WriteFails =>
            /\ alert' = "Error"
            /\ UNCHANGED <<heatmapData, stats, storage>>
            /\ pending' = Tail(pending)
        /\ storage' # storage =>
            /\ pending # << >>
            /\ Head(pending).op \in {"setItem", "removeItem"}
            /\ pending' = Tail(pending)
        /\ Len(pending') > Len(pending) =>
            call'.fn \in {"Focus", "saveHoursForDate", "ClearConfirmed"}
      ]_vars

\* C17 witness: the write of today's amount has just failed: the notice is
\* up, memory holds today's amount, storage does not, nothing is queued.
C17_Witness ==
    /\ call.fn = "SaveRejected"
    /\ alert = "Error"
    /\ DayKey(Today) \in DOMAIN heatmapData
    /\ DayKey(Today) \notin DOMAIN storage.data
    /\ pending = << >>

\* the persisted record restricted to the retention window
PersistedInWindow == cleanedHeatmapData(loadedHeatmapData(storage), now)

\* C18 (as stated): whenever no storage operation is pending and no storage
\* operation has failed, the in-memory record equals the persisted record
\* restricted to the retention window.
C18_MemoryEqualsPersisted ==
    (loaded /\ pending = << >> /\ failed = {}) => heatmapData = PersistedInWindow

\* C19 (as stated): once a read has failed, a successful write of an
\* accepted edit leaves every entry persisted inside the retention window
\* persisted.
C19_FailedReadLosesNothing ==
    [][ (WriteSucceeds /\ "read" \in failed) =>
            \A k \in DOMAIN PersistedInWindow : k \in DOMAIN storage'.data
      ]_vars

\* C20: the displayed currentStreak, longestStreak, totalHours, averageHours
\* and consistency score are the values the aggregation computes from the
\* current in-memory record.
C20_StatsMatchRecord ==
    /\ currentStreak = newCurrentStreak(heatmapData, now)
    /\ longestStreak = newLongestStreak(heatmapData)
    /\ totalHours = sumHours(heatmapData)
    /\ averageHours = newAverageHours(heatmapData)
    /\ consistencyScore = calculateConsistencyScore(heatmapData, now)

\* C20 witness: 2 h have just been entered for today next to 0.5 h
\* yesterday: streak 2, total 2.5 h, consistency 2/30.
C20_Witness ==
    /\ call.fn = "saveHoursForDate"
    /\ alert = ""
    /\ currentStreak = 2
    /\ longestStreak = 2
    /\ totalHours = 5
    /\ consistencyScore = Ratio(2, CONSISTENCY_DAYS)

-----------------------------------------------------------------------------
(* Claims C21 .. C30 *)

\* C21: 0 <= currentStreak <= longestStreak <= (number of positive-amount
\* entries of the in-memory record).
C21_StreakOrdering ==
    /\ 0 <= currentStreak
    /\ currentStreak <= longestStreak
    /\ longestStreak <= Cardinality(PositiveDays(heatmapData))

\* C21 witness: three positive days, a run of two and then today alone:
\* currentStreak 1 < longestStreak 2 < 3 entries.
C21_Witness ==
    /\ Processed
    /\ currentStreak = 1
    /\ longestStreak = 2
    /\ Cardinality(PositiveDays(heatmapData)) = 3

\* the Sunday on or before day n (1970-01-04, day 3, was a Sunday)
SundayOnOrBefore(n) == CHOOSE s \in (n - 6)..n : (s - 3) % 7 = 0

\* C22: with S the Sunday on or before today (UTC), the cell at row d
\* (0 = Sunday .. 6 = Saturday) and column w holds the date
\* S - 7 * (NUM_WEEKS_TO_SHOW - 1 - w) + d; today lies in the last column
\* and exactly one cell has isToday.
C22_GridAnchoredOnSunday ==
    LET g == Grid
        S == SundayOnOrBefore(Today)
    IN  /\ \A d \in 0..6 : \A w \in 0..(NUM_WEEKS_TO_SHOW - 1) :
               g[d + 1][w + 1].date = DayKey(S - 7 * (NUM_WEEKS_TO_SHOW - 1 - w) + d)
        /\ \E d \in 0..6 : g[d + 1][NUM_WEEKS_TO_SHOW].date = DayKey(Today)
        /\ Cardinality({c \in CellsOf(g) : c[2].isToday}) = 1

\* C22 witness: Tuesday 2024-02-27 at noon: today is the third cell of the
\* last column and the grid begins on Sunday 2023-12-24.
C22_Witness ==
    LET g == Grid
    IN  /\ now.ms > 0
        /\ g[3][NUM_WEEKS_TO_SHOW].isToday
        /\ g[3][NUM_WEEKS_TO_SHOW].date = <<2024, 2, 27>>
        /\ g[1][1].date = <<2023, 12, 24>>

\* the removal at the head of the queue completes in this step
ClearCompletes ==
    /\ pending # << >>
    /\ Head(pending).op = "removeItem"
    /\ pending' = Tail(pending)

\* C23 (as stated): when the removal succeeds the storage key is absent, the
\* in-memory record is empty and all statistics are 0, and the key stays
\* absent when the write of an edit accepted while the removal was pending
\* completes next; when the removal fails, the in-memory record and the
\* statistics are unchanged and an error is shown.
C23_ClearEmptiesEverything ==
    [][ /\ (ClearCompletes /\ call'.fn = "ClearResolved") =>
            /\ storage' = NoItem
            /\ heatmapData' = EmptyRecord
            /\ currentStreak' = 0
            /\ longestStreak' = 0
            /\ totalHours' = 0
            /\ averageHours' = Zero
            /\ consistencyScore' = Zero
        /\ (ClearCompletes /\ call'.fn = "ClearRejected") =>
            /\ UNCHANGED <<heatmapData, stats>>
            /\ alert' = "Error"
        /\ (call.fn = "ClearResolved" /\ WriteSucceeds) => storage' = NoItem
      ]_vars

\* C24 (as stated): in the daily tasks screen, once no request is pending,
\* the task list is the list that the accepted operations whose writes
\* succeeded make, in their order, of the list loaded: no accepted operation
\* is lost, also when one is started before the save of the one before it
\* has finished.
C24_NoAcceptedOperationLost ==
    (taskIdeal.known /\ taskPending = << >>) => tasks = taskIdeal.list

\* no saveTasks is waiting for setItem in queue q
NoSavePending(q) == \A i \in 1..Len(q) : q[i].op # "setItem"

\* the write at the head of the tasks queue fails in this step
TaskWriteFails ==
    /\ taskPending # << >>
    /\ Head(taskPending).op = "setItem"
    /\ taskCall'.fn = "saveTasksRejected"

\* C25: in the daily tasks screen, after a successful load, whenever no save
\* is pending the in-memory task list equals the persisted list; a failed
\* write changes neither of them.
C25_TasksEqualPersisted ==
    [][ /\ (taskLoad' = "ok" /\ NoSavePending(taskPending')) =>
                tasks' = parsedTasks(taskStorage')
        /\ TaskWriteFails => UNCHANGED <<tasks, taskStorage>>
      ]_vars

\* C25 witness: after a successful load of a stored task, a write has just
\* failed; nothing is pending and the list shown is the stored one.
C25_Witness ==
    /\ taskCall.fn = "saveTasksRejected"
    /\ taskLoad = "ok"
    /\ taskPending = << >>
    /\ tasks # << >>
    /\ tasks = parsedTasks(taskStorage)

\* the list handed to saveTasks in this step
WrittenTasks == taskPending'[Len(taskPending')].list

\* list w is list l with the elements at positions i and j exchanged and
\* every other element in its place
OnlyExchanged(w, l, i, j) ==
    /\ Len(w) = Len(l)
    /\ w[i] = l[j]
    /\ w[j] = l[i]
    /\ \A k \in 1..Len(l) : k \notin {i, j} => w[k] = l[k]

\* the positions of the task with the id in list l
PositionsOf(l, id) == {i \in 1..Len(l) : l[i].id = id}

\* C26: moveTaskUp (moveTaskDown) writes the list shown with the selected
\* task exchanged with its upper (lower) neighbour and every other task
\* unchanged; for the first task moved up, the last moved down, or an
\* unknown id, nothing changes and no write starts.
C26_MoveOnlyReorders ==
    [][ taskCall'.fn \in {"moveTaskUp", "moveTaskDown"} =>
            LET step == IF taskCall'.fn = "moveTaskUp" THEN -1 ELSE 1
                at   == PositionsOf(tasks, taskCall'.id)
            IN  /\ tasks' = tasks
                /\ taskStorage' = taskStorage
                /\ IF at # {} /\ (Max(at) + step) \in 1..Len(tasks)
                   THEN /\ Cardinality(at) = 1
                        /\ Len(taskPending') = Len(taskPending) + 1
                        /\ OnlyExchanged(WrittenTasks, tasks, Max(at), Max(at) + step)
                   ELSE taskPending' = taskPending
      ]_vars

\* C26 witness: the third task of a list of three has just been moved up.
C26_Witness ==
    /\ taskCall.fn = "moveTaskUp"
    /\ Len(tasks) = 3
    /\ tasks[3].id = taskCall.id
    /\ taskPending # << >>
    /\ taskPending[Len(taskPending)].list = <<tasks[1], tasks[3], tasks[2]>>

\* the day number of the date string dateStr
DayOf(dateStr) == ParseDate(dateStr).day

\* C30: for a start date not after the end date getWeeksBetweenDates yields
\* at least one week; the first week starts on the start date, every week
\* but the last spans seven days, each week starts on the day after the one
\* before it ends, the last week ends on the end date, so that every day
\* from start to end lies in exactly one week, and every week has an empty
\* task list; for a start date after the end date it yields no weeks
C30_WeeksPartitionTheRange ==
    weeksOut.kind = "object" =>
        LET startDay == DayOf(weeksArgs[1])
            endDay   == DayOf(weeksArgs[2])
            w        == weeksOut.list
            n        == Len(w)
        IN  IF startDay > endDay
            THEN n = 0
            ELSE /\ n >= 1
                 /\ w[1].startDate = weeksArgs[1]
                 /\ w[n].endDate = weeksArgs[2]
                 /\ \A i \in 1..n :
                        /\ DayOf(w[i].startDate) <= DayOf(w[i].endDate)
                        /\ w[i].tasks = TaskArray(<< >>)
                 /\ \A i \in 1..(n - 1) :
                        /\ DayOf(w[i].endDate) = DayOf(w[i].startDate) + 6
                        /\ DayOf(w[i + 1].startDate) = DayOf(w[i].endDate) + 1
                 /\ \A d \in startDay..endDay :
                        Cardinality({i \in 1..n :
                            DayOf(w[i].startDate) <= d /\ d <= DayOf(w[i].endDate)}) = 1

\* three weeks were produced, the last one shorter than seven days and in
\* another month than the first
C30_Witness ==
    /\ weeksOut.kind = "object"
    /\ Len(weeksOut.list) = 3
    /\ DayOf(weeksOut.list[3].endDate) < DayOf(weeksOut.list[3].startDate) + 6
    /\ weeksOut.list[3].endDate[2] # weeksOut.list[1].startDate[2]

\* the week has at least one task and all its tasks are completed
WeekDone(week) ==
    /\ week.tasks.kind = "array"
    /\ week.tasks.list # << >>
    /\ \A i \in 1..Len(week.tasks.list) : week.tasks.list[i].completed

\* the share of the weeks of g that are done, 0 for a goal without weeks
ShareOfDoneWeeks(g) ==
    IF g.weeks.kind = "missing" \/ g.weeks.list = << >>
    THEN Zero
    ELSE Ratio(Cardinality({i \in 1..Len(g.weeks.list) : WeekDone(g.weeks.list[i])}),
               Len(g.weeks.list))

\* C28: the progress of a goal is the number of its weeks that have at
\* least one task and only completed tasks, divided by the number of its
\* weeks, and 0 for a goal without weeks; it lies between 0 and 1;
\* calculateGoalProgress and calculateProgress return the same value for
\* the same goal, and isWeekComplete holds of exactly the weeks counted
C28_ProgressIsShareOfCompleteWeeks ==
    calcList.set =>
        /\ calcList.val = ShareOfDoneWeeks(calcGoal)
        /\ calcDetail.val = ShareOfDoneWeeks(calcGoal)
        /\ calcList = calcDetail
        /\ 0 <= calcList.val.num
        /\ calcList.val.num <= calcList.val.den
        /\ \A i \in 1..Len(calcGoal.weeks.list) :
               isWeekComplete(calcGoal, i) <=> WeekDone(calcGoal.weeks.list[i])

\* the progress of a goal with a completed week, a week without tasks and
\* a week with a task left has been computed
C28_Witness ==
    /\ calcList.set
    /\ calcList.val = Ratio(1, 3)
    /\ \E i \in 1..Len(calcGoal.weeks.list) : calcGoal.weeks.list[i].tasks = TaskArray(<< >>)
    /\ \E i \in 1..Len(calcGoal.weeks.list) :
          calcGoal.weeks.list[i].tasks = TaskArray(<<GoalTask(TRUE), GoalTask(FALSE)>>)

\* C27: every goal the list screen shows carries the progress that
\* calculateGoalProgress yields for it, after any sequence of loads and
\* deletions
C27_ShownProgressIsComputed ==
    \A i \in 1..Len(goals) : shownProgress(goals[i]) = calculateGoalProgress(goals[i])

\* C29: whenever the goal detail screen has the focus, loading becomes
\* false or the screen loses the focus: no focus leaves the screen
\* focused and loading for ever, whether the goal is found, the goal id
\* is missing, the goal is not found, no goals are stored, or the read or
\* the parse fails
C29_FocusEndsLoading == detailFocused ~> (~detailFocused \/ ~loading)

====
